---- MODULE Spec2Model ----
(***************************************************************************)
(* A model of the tool-call pipeline of kimi-chat-netlify:                 *)
(*   - the client's streaming intent watcher and dedup guard               *)
(*     (src/app/page.tsx, src/lib/detectIntent.ts),                        *)
(*   - the chat route's tool-call extraction (src/app/api/chat/route.ts),  *)
(*   - the tool execution endpoint and the tool routes.                    *)
(* Text is modelled as a sequence of tokens; every regular expression of   *)
(* the source is an operator on such sequences.                            *)
(***************************************************************************)
EXTENDS Integers, Sequences, FiniteSets, Bags, TLC

VARIABLES
    \* ---- client (page.tsx) ----
    lastRole,            \* role of messages[messages.length-1], "none" when empty
    lastId,              \* id of the last message (one per assistant turn)
    content,             \* content of the last message
    currentResponse,     \* currentResponse.current.length (the effect reads only the length)
    alreadyCalledTools,  \* alreadyCalledTools.current
    chatStatus,          \* "idle" | "streaming": a /api/chat request is in flight
    effectPending,       \* messages changed since the streaming effect last ran
    sent,                \* bag of the requests sent to /api/execTool since the last submission
    turn,                \* number of user submissions so far
    scannedId,           \* id of the message the effect scanned last, 0 when none (history)
    scannedLen,          \* how much of that message the effect has scanned as new chunks (history)
    \* ---- chat route (api/chat/route.ts) ----
    chatPc,              \* position of the POST handler
    given,               \* the first completion's message as the model returned it
    message,             \* completion.choices[0].message (content is rewritten)
    toolCallsToExecute,
    toolIdx,             \* index of the tool loop
    toolMessages,
    chatOut,             \* the response of the handler
    requests,            \* requests made after the first completion
    contextualMessages,  \* the conversation of the request, with the context message
    updatedMessages,     \* the messages of the follow-up completion request
    \* ---- tool execution endpoint (api/execTool/route.ts) ----
    execPc,              \* position of the POST handler
    execReq,             \* the request body
    execRes,             \* the response
    switchCase,          \* the case of switch (name) that ran
    toolFetch,           \* the fetch of a tool route
    toolRes,             \* what that fetch came back with
    \* ---- web search route (api/tools/websearch/route.ts and its variants) ----
    searchPc,            \* position of the POST handler
    deploy,              \* the variant that serves the route, and its API key
    searchReq,           \* the request body
    searchRes,           \* the response
    providerCalls,       \* requests sent to the search provider
    searchTimer,         \* the timeout of the provider request
    timedOut,            \* the timeout has fired
    \* ---- calculator route (api/tools/calculator/route.ts) ----
    calcPc,              \* position of the POST handler
    calcReq,             \* the request body
    calcRes,             \* the response
    functionBody,        \* the text handed to Function, <<>> when none was
    \* ---- one tool dispatch, from the page or the chat route down to the provider ----
    dispatchPc,          \* position of the caller: executeTool of the page, or the tool loop
    dispatchCall,        \* the tool call and the way it is dispatched
    dispatchRes,         \* what the caller ends with
    codePc,              \* position of the code runner's POST handler
    codeReq,             \* the code runner's request body
    codeRes,             \* the code runner's response
    \* ---- grounded-answer route (api/tools/ai-grounding/route.ts) ----
    groundPc,            \* position of the POST handler
    groundReq,           \* the request body and the configuration
    groundUp,            \* what the upstream API did
    groundTimer,         \* the timeout of the upstream request
    groundRes,           \* the response
    \* ---- password gate and request validation of the chat route ----
    wrapperPc,           \* AuthWrapper: "loading", the login "form", a "login" in flight, or the "app"
    sessionAuth,         \* sessionStorage['kimi-auth']
    login,               \* the password sent to /api/auth, AUTH_PASSWORD, and the status answered
    gatePc,              \* position of the chat route's POST handler
    gateReq,             \* the request: its body, its sender and the MOONSHOT_API_KEY setting
    gateRes,             \* the status of the response, 0 when there is none yet
    modelCalls,          \* completion requests sent to the model provider
    sentModel,           \* the model id of the completion request
    \* ---- citations of a grounded answer (api/tools/ai-grounding/route.ts) ----
    citePc,              \* position after the upstream response was read
    answer,              \* aiResponse.choices[0].message.content
    enable_citations,    \* the request's flag, after its default
    sources,             \* the sources list of the response
    has_citations,       \* metadata.has_citations of the response
    \* ---- context box of the page (page.tsx, FileUpload.tsx) ----
    context,             \* the context state, as its lines
    uploadedFiles,       \* names of the uploaded files
    storage,             \* localStorage['kimi-chat-context'], as its lines
    contextSent,         \* the context of the last chat request and the endpoint's verdict
    uploads,             \* files uploaded so far
    typings,             \* changes of the textarea so far
    \* ---- tool results of the page (page.tsx executeTool and the rendering) ----
    messageId,           \* id of the assistant message being streamed
    calledKeys,          \* alreadyCalledTools.current, as the keys it holds
    pending,             \* the /api/execTool requests of executeTool that have not finished
    executingTools,      \* the executingTools state
    toolResults,         \* the toolResults state: for each key the response stored last
    stored,              \* every response ever stored in toolResults (history)
    finished,            \* the requests whose executeTool has run to its end (history)
    nextReq              \* number of the next request

clientVars == <<lastRole, lastId, content, currentResponse,
                alreadyCalledTools, chatStatus, effectPending,
                sent, turn, scannedId, scannedLen>>

chatVars == <<chatPc, given, message, toolCallsToExecute, toolIdx,
              toolMessages, chatOut, requests,
              contextualMessages, updatedMessages>>

execVars == <<execPc, execReq, execRes, switchCase, toolFetch, toolRes>>

searchVars == <<searchPc, deploy, searchReq, searchRes, providerCalls,
                searchTimer, timedOut>>

calcVars == <<calcPc, calcReq, calcRes, functionBody>>

dispatchVars == <<dispatchPc, dispatchCall, dispatchRes, codePc, codeReq,
                  codeRes>>

groundVars == <<groundPc, groundReq, groundUp, groundTimer, groundRes>>

gateVars == <<wrapperPc, sessionAuth, login, gatePc, gateReq, gateRes,
              modelCalls, sentModel>>

citeVars == <<citePc, answer, enable_citations, sources, has_citations>>

contextVars == <<context, uploadedFiles, storage, contextSent, uploads,
                 typings>>

resultsVars == <<messageId, calledKeys, pending, executingTools, toolResults,
                 stored, finished, nextReq>>

\* The variables of the other components, left alone by a component's actions.
nonClientVars == <<chatVars, execVars, searchVars, calcVars, dispatchVars,
                   groundVars, gateVars, citeVars,
                   contextVars, resultsVars>>
nonChatVars == <<clientVars, execVars, searchVars, calcVars, dispatchVars,
                 groundVars, gateVars, citeVars, contextVars,
                 resultsVars>>
nonExecVars == <<clientVars, chatVars, searchVars, calcVars, dispatchVars,
                 groundVars, gateVars, citeVars, contextVars,
                 resultsVars>>
nonSearchVars == <<clientVars, chatVars, execVars, calcVars, dispatchVars,
                   groundVars, gateVars, citeVars,
                   contextVars, resultsVars>>
nonCalcVars == <<clientVars, chatVars, execVars, searchVars, dispatchVars,
                 groundVars, gateVars, citeVars, contextVars,
                 resultsVars>>
nonDispatchVars == <<clientVars, chatVars, execVars, searchVars, calcVars,
                     groundVars, gateVars, citeVars,
                     contextVars, resultsVars>>
nonGroundVars == <<clientVars, chatVars, execVars, searchVars, calcVars,
                   dispatchVars, gateVars, citeVars,
                   contextVars, resultsVars>>
nonGateVars == <<clientVars, chatVars, execVars, searchVars, calcVars,
                 dispatchVars, groundVars, citeVars,
                 contextVars, resultsVars>>
nonCiteVars == <<clientVars, chatVars, execVars, searchVars, calcVars,
                 dispatchVars, groundVars, gateVars,
                 contextVars, resultsVars>>
nonContextVars == <<clientVars, chatVars, execVars, searchVars, calcVars,
                    dispatchVars, groundVars, gateVars,
                    citeVars, resultsVars>>
nonResultsVars == <<clientVars, chatVars, execVars, searchVars, calcVars,
                    dispatchVars, groundVars, gateVars,
                    citeVars, contextVars>>
\* The components that a tool dispatch does not pass through.
afterDispatchVars == <<groundVars, gateVars, citeVars, contextVars,
                       resultsVars>>

vars == <<clientVars, chatVars, execVars, searchVars, calcVars, dispatchVars,
          groundVars, gateVars, citeVars, contextVars, resultsVars>>

-----------------------------------------------------------------------------
(* Bounds *)
MaxLen == 4        \* tokens in one assistant message
MaxTurns == 2      \* user submissions
MaxPayload == 3    \* characters in the query of an embedded tool call
MaxCalls == 2      \* tool calls in one embedded marker
MaxPlain == 3      \* characters in a message without a marker
MaxProviderResults == 3   \* usable results in a provider response
MaxExprLen == 4    \* atoms in an expression to evaluate
MaxEqLen == 4      \* atoms in an equation that is not of the linear form
MaxMessages == 2   \* messages in the list of a chat request
MaxAnswer == 7     \* characters in the answer text of the upstream API
MaxUploads == 2    \* files uploaded
MaxTypings == 2    \* changes of the context textarea
MaxResultTurns == 3  \* assistant messages that dispatch tools
MaxRequests == 3   \* requests of executeTool to /api/execTool

-----------------------------------------------------------------------------
(* Text: tokens are joined by single spaces; "." is sentence punctuation.   *)
Words == {"search", "for", "cats", "calculate", "."}

SearchVerbs == {"search"}          \* of (search|look up|google|find|query|research)
SearchPreps == {"for"}             \* of (for|about|regarding|information)
CalcVerbs   == {"calculate"}       \* of (calculate|compute|solve|evaluate)
Punct       == {"."}               \* of [.!?]

NoArgs == [none |-> TRUE]

\* The tokens of t from position i up to (not including) the next punctuation:
\* the capture of ([^.!?]+), trimmed.
RECURSIVE Phrase(_, _)
Phrase(t, i) ==
    IF i > Len(t) \/ t[i] \in Punct THEN <<>>
    ELSE <<t[i]>> \o Phrase(t, i + 1)

\* Leftmost position where a word of ws is followed by whitespace and at least
\* one non-punctuation character; 0 when there is none.
FirstFollowed(t, ws) ==
    LET hits == {i \in 1..Len(t) : t[i] \in ws /\ i < Len(t) /\ t[i + 1] \notin Punct}
    IN IF hits = {} THEN 0 ELSE CHOOSE i \in hits : \A j \in hits : i <= j

WebSearchTrigger(t) ==
    \E i, j \in 1..Len(t) : i < j /\ t[i] \in SearchVerbs /\ t[j] \in SearchPreps

\* needsScraping: none of its cue words or URL suffixes is in Words.
NeedsScraping(t) ==
    \E i \in 1..Len(t) : t[i] \in {"purpose", "content", "analyze", "summary",
                                   "details", "meaning", "about", "site", "website"}

\* The extractor of the WebSearch pattern. The quoted-phrase, URL, comet and
\* capitalised-name branches need characters that Words does not contain.
WebSearchExtractor(t) ==
    LET j == FirstFollowed(t, SearchPreps)
    IN IF j # 0
       THEN [query |-> Phrase(t, j + 1), max_results |-> 3, scrape_first |-> NeedsScraping(t)]
       ELSE NoArgs

CalculatorTrigger(t) == \E i \in 1..Len(t) : t[i] \in CalcVerbs

CalculatorExtractor(t) ==
    LET j == FirstFollowed(t, CalcVerbs)
    IN IF j # 0
       THEN [expression |-> Phrase(t, j + 1), operation |-> "evaluate"]
       ELSE NoArgs

NoIntent == [name |-> "none", arguments |-> NoArgs]

\* detectIntent: the first pattern whose trigger matches and whose extractor
\* returns arguments. The CodeRunner pattern needs a fenced code block.
detectIntent(t) ==
    IF WebSearchTrigger(t) /\ WebSearchExtractor(t) # NoArgs
    THEN [name |-> "WebSearch", arguments |-> WebSearchExtractor(t)]
    ELSE IF CalculatorTrigger(t) /\ CalculatorExtractor(t) # NoArgs
    THEN [name |-> "Calculator", arguments |-> CalculatorExtractor(t)]
    ELSE NoIntent

\* The dedup identity `${name}_${JSON.stringify(arguments)}`.
ToolKey(call) == <<call.name, call.arguments>>

\* shouldCallTool: membership test, then insertion.
shouldCallTool(call, called) == ToolKey(call) \notin called

AfterShouldCallTool(call, called) == called \cup {ToolKey(call)}

-----------------------------------------------------------------------------
(* Client: useChat and the streaming effect *)

\* executeTool, up to the fetch: the calls in cs are issued in order; each passes
\* the guard, records its identity and sends its request, or is skipped.
RECURSIVE ExecuteAll(_, _, _, _)
ExecuteAll(cs, called, out, id) ==
    IF cs = <<>> THEN [called |-> called, out |-> out]
    ELSE LET c == Head(cs)
         IN IF shouldCallTool(c, called)
            THEN ExecuteAll(Tail(cs), AfterShouldCallTool(c, called),
                            out (+) SetToBag({[msgId |-> id, name |-> c.name,
                                               args |-> c.arguments]}), id)
            ELSE ExecuteAll(Tail(cs), called, out, id)

\* The calls the effect issues for a new chunk and the full buffer.
EffectCalls(newChunk, full) ==
    LET toolIntent == detectIntent(newChunk)
        fullIntent == detectIntent(full)
    IN (IF toolIntent # NoIntent THEN <<toolIntent>> ELSE <<>>)
       \o (IF fullIntent # NoIntent /\ fullIntent.name # toolIntent.name
           THEN <<fullIntent>> ELSE <<>>)

Slice(s, n) == IF n >= Len(s) THEN <<>> ELSE SubSeq(s, n + 1, Len(s))

ClientInit ==
    /\ lastRole = "none"
    /\ lastId = 0
    /\ content = <<>>
    /\ currentResponse = 0
    /\ alreadyCalledTools = {}
    /\ chatStatus = "idle"
    /\ effectPending = FALSE
    /\ sent = EmptyBag
    /\ turn = 0
    /\ scannedId = 0
    /\ scannedLen = 0

\* handleSubmit: the user message is appended and /api/chat is requested.
Submit ==
    /\ chatStatus = "idle"
    /\ turn < MaxTurns
    /\ turn' = turn + 1
    /\ lastRole' = "user"
    /\ content' = <<"search">>
    /\ chatStatus' = "streaming"
    /\ effectPending' = TRUE
    /\ sent' = EmptyBag
    /\ UNCHANGED <<lastId, currentResponse, alreadyCalledTools, scannedId, scannedLen>>
    /\ UNCHANGED nonClientVars

\* A streamed delta of one token: useChat appends it to (or creates) the
\* assistant message. Several deltas may arrive before the effect runs.
Delta ==
    /\ chatStatus = "streaming"
    /\ \E d \in Words :
        /\ IF lastRole = "assistant"
           THEN /\ Len(content) < MaxLen
                /\ content' = Append(content, d)
                /\ UNCHANGED lastId
           ELSE /\ content' = <<d>>
                /\ lastId' = turn
        /\ lastRole' = "assistant"
    /\ effectPending' = TRUE
    /\ UNCHANGED <<currentResponse, alreadyCalledTools, chatStatus, sent, turn, scannedId, scannedLen>>
    /\ UNCHANGED nonClientVars

\* onFinish: the stream has ended; tracking is reset for the next message.
OnFinish ==
    /\ chatStatus = "streaming"
    /\ currentResponse' = 0
    /\ alreadyCalledTools' = {}
    /\ chatStatus' = "idle"
    /\ UNCHANGED <<lastRole, lastId, content, effectPending, sent, turn, scannedId, scannedLen>>
    /\ UNCHANGED nonClientVars

\* onError: the request failed; nothing is reset.
OnError ==
    /\ chatStatus = "streaming"
    /\ chatStatus' = "idle"
    /\ UNCHANGED <<lastRole, lastId, content, currentResponse, alreadyCalledTools,
                   effectPending, sent, turn, scannedId, scannedLen>>
    /\ UNCHANGED nonClientVars

\* The streaming intent detection effect, run after a render in which
\* `messages` changed. React runs it after the commit, so it sees the latest
\* content, and it is not ordered with respect to onFinish.
EffectRun ==
    /\ effectPending
    /\ effectPending' = FALSE
    /\ IF lastRole # "assistant" \/ content = <<>>
       THEN UNCHANGED <<currentResponse, alreadyCalledTools, sent, scannedId, scannedLen>>
       ELSE LET newChunk == Slice(content, currentResponse)
            IN IF newChunk = <<>>
               THEN UNCHANGED <<currentResponse, alreadyCalledTools, sent, scannedId, scannedLen>>
               ELSE LET r == ExecuteAll(EffectCalls(newChunk, content),
                                        alreadyCalledTools, sent, lastId)
                    IN /\ currentResponse' = Len(content)
                       /\ alreadyCalledTools' = r.called
                       /\ sent' = r.out
                       /\ scannedId' = lastId
                       /\ scannedLen' = Len(content)
    /\ UNCHANGED <<lastRole, lastId, content, chatStatus, turn>>
    /\ UNCHANGED nonClientVars

ClientNext == Submit \/ Delta \/ OnFinish \/ OnError \/ EffectRun

-----------------------------------------------------------------------------
(* Chat route: the text of a completion.                                    *)
(* A message is a sequence of atoms:                                        *)
(*   "O"  {"tool_calls":                                                    *)
(*   "H"  {"id":"c1","type":"function","function":{"name":"WebSearch",      *)
(*         "arguments":"{\"query\":\"      (up to the start of the query)   *)
(*   "E"  \"}"                             (the end of the arguments string) *)
(*   "[" "]" "}" ","  the characters themselves                             *)
(*   "x" "t"          a letter of a query / of the surrounding text         *)
(*   " "              whitespace                                            *)
(* so that a call is H query E } } and a marker is O [ call , call ] }.      *)

PayloadChars == {"x", "]", "}"}
StringChars == {"x", "t", " ", "[", "]", "}", ","}   \* legal inside a JSON string

Min(S) == CHOOSE x \in S : \A y \in S : x <= y
Max(S) == CHOOSE x \in S : \A y \in S : x >= y

\* \s* from position i: the first position at or after i that is not whitespace.
SkipWs(s, i) ==
    LET c == {j \in i..Len(s) : s[j] # " "}
    IN IF c = {} THEN Len(s) + 1 ELSE Min(c)

At(s, i) == IF i >= 1 /\ i <= Len(s) THEN s[i] ELSE "eof"

\* String.prototype.trim
Trim(s) ==
    LET c == {j \in 1..Len(s) : s[j] # " "}
    IN IF c = {} THEN <<>> ELSE SubSeq(s, Min(c), Max(c))

NoMatch == [found |-> FALSE, from |-> 0, to |-> 0, capture |-> <<>>]

\* The text with the matched range removed: replace(match, '').
Remove(s, m) ==
    IF m.found THEN SubSeq(s, 1, m.from - 1) \o SubSeq(s, m.to + 1, Len(s)) ELSE s

\* Pattern 1: /\{"tool_calls":\s*\[([\s\S]*?)\]\}/ , the lazy capture ends at
\* the first "]" that is directly followed by "}".
Pattern1Ends(s, i) ==
    LET b == SkipWs(s, i + 1)
    IN IF At(s, i) = "O" /\ At(s, b) = "["
       THEN {k \in (b + 1)..Len(s) : s[k] = "]" /\ At(s, k + 1) = "}"}
       ELSE {}

Pattern1From(s, n) ==
    LET starts == {i \in n..Len(s) : Pattern1Ends(s, i) # {}}
    IN IF starts = {} THEN NoMatch
       ELSE LET i == Min(starts)
                k == Min(Pattern1Ends(s, i))
            IN [found |-> TRUE, from |-> i, to |-> k + 1,
                capture |-> SubSeq(s, SkipWs(s, i + 1) + 1, k - 1)]

Pattern1(s) == Pattern1From(s, 1)

\* Pattern 2: /\[\s*\{\s*"id":\s*"[^"]*",\s*"type":\s*"function"[\s\S]*?\]\s*\}/
Pattern2Ends(s, i) ==
    LET h == SkipWs(s, i + 1)
    IN IF At(s, i) = "[" /\ At(s, h) = "H"
       THEN {k \in (h + 1)..Len(s) : s[k] = "]" /\ At(s, SkipWs(s, k + 1)) = "}"}
       ELSE {}

Pattern2(s) ==
    LET starts == {i \in 1..Len(s) : Pattern2Ends(s, i) # {}}
    IN IF starts = {} THEN NoMatch
       ELSE LET i == Min(starts)
                k == Min(Pattern2Ends(s, i))
            IN [found |-> TRUE, from |-> i, to |-> SkipWs(s, k + 1),
                capture |-> SubSeq(s, i, SkipWs(s, k + 1))]

\* Pattern 3, one match at or after position n:
\* /\{\s*"id":\s*"[^"]*",\s*"type":\s*"function",\s*"function":\s*\{[\s\S]*?\}\s*\}/
Pattern3Ends(s, i) ==
    IF At(s, i) = "H"
    THEN {k \in (i + 1)..Len(s) : s[k] = "}" /\ At(s, SkipWs(s, k + 1)) = "}"}
    ELSE {}

Pattern3From(s, n) ==
    LET starts == {i \in n..Len(s) : Pattern3Ends(s, i) # {}}
    IN IF starts = {} THEN NoMatch
       ELSE LET i == Min(starts)
                k == Min(Pattern3Ends(s, i))
            IN [found |-> TRUE, from |-> i, to |-> SkipWs(s, k + 1),
                capture |-> SubSeq(s, i, SkipWs(s, k + 1))]

\* The matches of Pattern 3 with the g flag, left to right.
RECURSIVE Pattern3All(_, _)
Pattern3All(s, n) ==
    LET m == Pattern3From(s, n)
    IN IF m.found THEN <<m.capture>> \o Pattern3All(s, m.to + 1) ELSE <<>>

\* replace(Pattern 3 with the g flag, '')
RECURSIVE RemovePattern3(_, _)
RemovePattern3(s, n) ==
    LET m == Pattern3From(s, n)
    IN IF m.found
       THEN SubSeq(s, n, m.from - 1) \o RemovePattern3(s, m.to + 1)
       ELSE SubSeq(s, n, Len(s))

\* The partial pattern /\{"tool_calls":\s*\[.*$/ (the alphabet has no newline).
partialToolCallPattern(s) ==
    \E i \in 1..Len(s) : s[i] = "O" /\ At(s, SkipWs(s, i + 1)) = "["

\* indexOf('{"tool_calls":')
jsonStartIndex(s) == Min({i \in 1..Len(s) : s[i] = "O"})

\* cleanMessageContent of the page: Pattern 1 with the g flag, the array pattern
\* /\[\s*\{\s*"id":\s*"[^"]*",\s*"type":\s*"function"[\s\S]*?\]/g, Pattern 3 with
\* the g flag, and trim.
RECURSIVE RemovePattern1(_, _)
RemovePattern1(s, n) ==
    LET m == Pattern1From(s, n)
    IN IF m.found
       THEN SubSeq(s, n, m.from - 1) \o RemovePattern1(s, m.to + 1)
       ELSE SubSeq(s, n, Len(s))

ArrayPatternFrom(s, n) ==
    LET ends(i) == IF At(s, i) = "[" /\ At(s, SkipWs(s, i + 1)) = "H"
                   THEN {k \in (SkipWs(s, i + 1) + 1)..Len(s) : s[k] = "]"}
                   ELSE {}
        starts == {i \in n..Len(s) : ends(i) # {}}
    IN IF starts = {} THEN NoMatch
       ELSE [found |-> TRUE, from |-> Min(starts), to |-> Min(ends(Min(starts))),
             capture |-> <<>>]

RECURSIVE RemoveArrayPattern(_, _)
RemoveArrayPattern(s, n) ==
    LET m == ArrayPatternFrom(s, n)
    IN IF m.found
       THEN SubSeq(s, n, m.from - 1) \o RemoveArrayPattern(s, m.to + 1)
       ELSE SubSeq(s, n, Len(s))

cleanMessageContent(s) ==
    Trim(RemovePattern3(RemoveArrayPattern(RemovePattern1(s, 1), 1), 1))


(* JSON.parse on the atoms *)

ParseFail == [ok |-> FALSE, next |-> 0, calls |-> <<>>]

WebSearchCall(q) == [id |-> "c1", name |-> "WebSearch", arguments |-> q]

\* One call object starting at position i (after whitespace): H, the characters
\* of the query, E, "}" and "}".
ParseCall(s, i) ==
    LET h == SkipWs(s, i)
        es == {k \in (h + 1)..Len(s) : s[k] = "E"}
    IN IF At(s, h) # "H" \/ es = {} THEN ParseFail
       ELSE LET e == Min(es)
                a == SkipWs(s, e + 1)
                b == SkipWs(s, a + 1)
            IN IF /\ \A k \in (h + 1)..(e - 1) : s[k] \in StringChars
                  /\ At(s, a) = "}"
                  /\ At(s, b) = "}"
               THEN [ok |-> TRUE, next |-> b + 1,
                     calls |-> <<WebSearchCall(SubSeq(s, h + 1, e - 1))>>]
               ELSE ParseFail

\* An element of the parsed array that is not an object has no function and no
\* id of its own; it is known by what it is: null ("N") or a number ("7").
NullEntry == [id |-> "null", name |-> "", arguments |-> <<>>]
NumberEntry == [id |-> "number", name |-> "", arguments |-> <<>>]

\* One element of an array: a call object, null or a number.
ParseElement(s, i) ==
    LET h == SkipWs(s, i)
    IN IF At(s, h) = "N" THEN [ok |-> TRUE, next |-> h + 1, calls |-> <<NullEntry>>]
       ELSE IF At(s, h) = "7" THEN [ok |-> TRUE, next |-> h + 1, calls |-> <<NumberEntry>>]
       ELSE ParseCall(s, i)

\* The elements of an array, separated by commas, up to the end of s.
RECURSIVE ParseItems(_, _, _)
ParseItems(s, i, acc) ==
    IF SkipWs(s, i) > Len(s)
    THEN (IF acc = <<>> THEN [ok |-> TRUE, next |-> Len(s) + 1, calls |-> <<>>]
          ELSE ParseFail)
    ELSE LET c == ParseElement(s, i)
             k == SkipWs(s, c.next)
         IN IF ~c.ok THEN ParseFail
            ELSE IF k > Len(s)
            THEN [ok |-> TRUE, next |-> k, calls |-> acc \o c.calls]
            ELSE IF s[k] = ","
            THEN ParseItems(s, k + 1, acc \o c.calls)
            ELSE ParseFail

\* JSON.parse of a text that must be one array of call objects.
ParseArray(s) ==
    LET t == Trim(s)
    IN IF Len(t) >= 2 /\ t[1] = "[" /\ t[Len(t)] = "]"
       THEN ParseItems(SubSeq(t, 2, Len(t) - 1), 1, <<>>)
       ELSE ParseFail

\* JSON.parse of a text that must be one {"tool_calls":[...]} object.
ParseToolCallsObject(s) ==
    LET t == Trim(s)
    IN IF Len(t) >= 2 /\ t[1] = "O" /\ t[Len(t)] = "}"
       THEN ParseArray(SubSeq(t, 2, Len(t) - 1))
       ELSE ParseFail

\* JSON.parse of one call object.
ParseOne(s) ==
    LET c == ParseCall(s, 1)
    IN IF c.ok /\ SkipWs(s, c.next) > Len(s) THEN c ELSE ParseFail

\* Pattern 1 of the route: the capture, re-wrapped and parsed.
Extract1(s) ==
    LET m == Pattern1(s)
        p == ParseItems(m.capture, 1, <<>>)
    IN IF m.found /\ p.ok THEN p.calls ELSE <<>>

\* Pattern 2: the match without its closing "}" parsed as an array.
Extract2(s) ==
    LET m == Pattern2(s)
        p == ParseArray(SubSeq(m.capture, 1, Len(m.capture) - 1))
    IN IF m.found /\ p.ok THEN p.calls ELSE <<>>

\* Pattern 3: every match that parses.
RECURSIVE ParseEach(_)
ParseEach(ms) ==
    IF ms = <<>> THEN <<>>
    ELSE ParseOne(Head(ms)).calls \o ParseEach(Tail(ms))

Extract3(s) == ParseEach(Pattern3All(s, 1))

\* The three patterns with no stop at the first that yields calls.
extractedToolCallsAll(s) == Extract1(s) \o Extract2(s) \o Extract3(s)

\* The three patterns in priority order.
extractedToolCalls(s) ==
    IF Extract1(s) # <<>> THEN Extract1(s)
    ELSE IF Extract2(s) # <<>> THEN Extract2(s)
    ELSE Extract3(s)

\* The cleanup of message.content after an extraction.
Cleanup(s) == Trim(RemovePattern3(Remove(Remove(s, Pattern1(s)),
                                         Pattern2(Remove(s, Pattern1(s)))), 1))


(* Chat route: the messages a completion can return *)

Payloads == UNION {[1..n -> PayloadChars] : n \in 0..MaxPayload}
\* The queries of the calls of one marker: one call with any query, or several
\* calls with queries that hold none or both of "]" and "}".
SeveralPayloads == {<<>>, <<"x">>, <<"]", "}">>, <<"}", "}">>}
PayloadLists ==
    {<<q>> : q \in Payloads} \cup UNION {[1..n -> SeveralPayloads] : n \in 2..MaxCalls}

Call(q) == <<"H">> \o q \o <<"E", "}", "}">>

RECURSIVE JoinCalls(_)
JoinCalls(qs) ==
    IF Len(qs) = 1 THEN Call(qs[1])
    ELSE Call(Head(qs)) \o <<",">> \o JoinCalls(Tail(qs))

\* A complete, well-formed {"tool_calls":[...]} object.
Marker(qs) == <<"O", "[">> \o JoinCalls(qs) \o <<"]", "}">>

RECURSIVE CallsOf(_)
CallsOf(qs) ==
    IF qs = <<>> THEN <<>> ELSE <<WebSearchCall(Head(qs))>> \o CallsOf(Tail(qs))

Prefixes == {<<>>, <<"t">>, <<"t", " ">>, <<" ", "t">>}
Suffixes == {<<>>, <<" ", "t">>}
PlainChars == {"t", " ", "[", "]", "}"}
PlainTexts == UNION {[1..n -> PlainChars] : n \in 0..MaxPlain}

ToolNames == {"WebSearch", "CodeRunner", "Calculator", "DataProcessor", ""}
NativeCalls == [id : {"c1"}, name : ToolNames, arguments : {<<"x">>, <<"notjson">>}]
\* The provider gives each call of a message its own id.
CallIds == <<"c1", "c2", "c3", "c4">>
NativeCallLists ==
    {[i \in DOMAIN l |-> [l[i] EXCEPT !.id = CallIds[i]]]
        : l \in UNION {[1..n -> NativeCalls] : n \in 1..MaxCalls}}

NoGiven == [shape |-> "none", prefix |-> <<>>, payloads |-> <<>>, suffix |-> <<>>,
            content |-> <<>>, tool_calls |-> <<>>]

Givens ==
    {[shape |-> "plain", prefix |-> c, payloads |-> <<>>, suffix |-> <<>>,
      content |-> c, tool_calls |-> <<>>] : c \in PlainTexts}
    \cup
    {[shape |-> "marker", prefix |-> x[1], payloads |-> x[2], suffix |-> x[3],
      content |-> x[1] \o Marker(x[2]) \o x[3], tool_calls |-> <<>>]
        : x \in Prefixes \X PayloadLists \X Suffixes}
    \cup
    {[shape |-> "truncated", prefix |-> x[1], payloads |-> <<x[2]>>, suffix |-> <<>>,
      content |-> x[1] \o SubSeq(Marker(<<x[2]>>), 1, x[3]), tool_calls |-> <<>>]
        : x \in {y \in Prefixes \X Payloads \X (2..(MaxPayload + 7)) :
                    y[3] < Len(Marker(<<y[2]>>))}}
    \cup
    {[shape |-> "object", prefix |-> x[1], payloads |-> <<x[2]>>, suffix |-> <<>>,
      content |-> x[1] \o Call(x[2]), tool_calls |-> <<>>]
        : x \in Prefixes \X Payloads}
    \cup
    {[shape |-> "array", prefix |-> x[1], payloads |-> x[2], suffix |-> <<>>,
      content |-> x[1] \o Tail(Marker(x[2])), tool_calls |-> <<>>]
          : x \in {<<>>, <<"t">>} \X PayloadLists}
    \cup
    {[shape |-> "entries", prefix |-> <<>>, payloads |-> <<>>, suffix |-> <<>>,
      content |-> <<"O", "[">> \o c \o <<"]", "}">>, tool_calls |-> <<>>]
          : c \in {<<"N">>, <<"7">>, <<"N", ",">> \o Call(<<"x">>),
                   Call(<<"x">>) \o <<",", "N">>, Call(<<"x">>) \o <<",", "7">>,
                   <<"N", "x">>}}
    \cup
    {[shape |-> "native", prefix |-> x[1], payloads |-> <<>>, suffix |-> <<>>,
      content |-> x[1], tool_calls |-> x[2]]
        : x \in {<<>>, <<"t">>} \X NativeCallLists}

\* What a Partial Mode completion can return as content.
PartialCompletions ==
    {<<>>, <<"t">>, <<"E", "}", "}", "]", "}">>, <<"x", "E", "}", "}", "]", "}">>,
     <<"[", "H", "x", "E", "}", "}", "]">>}

\* A response of the chat route: its kind, status and text where the route
\* writes it; toolMessages are the tool results the response is made from.
NoOut == [kind |-> "none", status |-> 0, text |-> <<>>, toolMessages |-> <<>>]
NoRequests == [partial |-> 0, tool |-> 0, followUp |-> 0, fallback |-> 0]

\* The no-tools branch with the cleanup's trim applied to the content.
NoToolsContentTrimmed(m) == Trim(m.content)

\* The content the no-tools branch streams: message.content || ''.
NoToolsContent(m) == m.content

\* After the extraction and a Partial Mode completion: the tool loop or the
\* direct response.
AfterExtraction(calls) == IF Len(calls) > 0 THEN "tools" ELSE "respond"

\* A message of a completion request.
Message(role, id, text) == [role |-> role, tool_call_id |-> id, content |-> text]

\* The conversations of a request: the messages of the body in their order,
\* after the system message made of the context when there is one.
Conversations ==
    {<<Message("user", "", <<"u1">>)>>,
     <<Message("system", "", <<"c">>), Message("user", "", <<"u1">>)>>,
     <<Message("user", "", <<"u1">>), Message("assistant", "", <<"a1">>),
       Message("user", "", <<"u2">>)>>}

\* The follow-up list with the tool messages ahead of the assistant's message.
UpdatedMessagesToolsFirst(conversation, assistant, tools) ==
    conversation \o tools \o <<Message("assistant", "", assistant.content)>>

\* updatedMessages: [...contextualMessages, message, ...toolMessages]
UpdatedMessages(conversation, assistant, tools) ==
    conversation \o <<Message("assistant", "", assistant.content)>> \o tools

ChatInit ==
    /\ chatPc = "idle"
    /\ given = NoGiven
    /\ message = [content |-> <<>>, tool_calls |-> <<>>]
    /\ toolCallsToExecute = <<>>
    /\ toolIdx = 1
    /\ toolMessages = <<>>
    /\ chatOut = NoOut
    /\ requests = NoRequests
    /\ contextualMessages = <<>>
    /\ updatedMessages = <<>>

\* POST: the first, non-streaming completion returns a message.
ChatRequest ==
    /\ chatPc = "idle"
    /\ \E g \in Givens :
        /\ given' = g
        /\ message' = [content |-> g.content, tool_calls |-> g.tool_calls]
    /\ chatPc' = "extract"
    /\ toolCallsToExecute' = <<>>
    /\ toolIdx' = 1
    /\ toolMessages' = <<>>
    /\ chatOut' = NoOut
    /\ requests' = NoRequests
    /\ \E c \in Conversations : contextualMessages' = c
    /\ updatedMessages' = <<>>
    /\ UNCHANGED nonChatVars

\* POST: the first completion throws; the handler falls back to streaming.
ChatCompletionFails ==
    /\ chatPc = "idle"
    /\ given' = NoGiven
    /\ message' = [content |-> <<>>, tool_calls |-> <<>>]
    /\ chatPc' = "fallback"
    /\ toolCallsToExecute' = <<>>
    /\ toolIdx' = 1
    /\ toolMessages' = <<>>
    /\ chatOut' = NoOut
    /\ requests' = NoRequests
    /\ \E c \in Conversations : contextualMessages' = c
    /\ updatedMessages' = <<>>
    /\ UNCHANGED nonChatVars

\* The native tool calls, or else the calls embedded in the content.
ChatExtract ==
    /\ chatPc = "extract"
    /\ IF Len(message.tool_calls) # 0 \/ message.content = <<>>
       THEN /\ toolCallsToExecute' = message.tool_calls
            /\ chatPc' = AfterExtraction(message.tool_calls)
            /\ UNCHANGED message
       ELSE LET ex == extractedToolCalls(message.content)
            IN IF Len(ex) > 0
               THEN /\ toolCallsToExecute' = ex
                    /\ message' = [message EXCEPT !.content = Cleanup(message.content)]
                    /\ chatPc' = "tools"
               ELSE /\ toolCallsToExecute' = <<>>
                    /\ UNCHANGED message
                    /\ chatPc' = IF partialToolCallPattern(message.content)
                                 THEN "partial" ELSE "respond"
    /\ UNCHANGED <<contextualMessages, updatedMessages, given, toolIdx, toolMessages, chatOut, requests>>
    /\ UNCHANGED nonChatVars

\* The Partial Mode completion request for an incomplete tool call.
ChatPartial ==
    /\ chatPc = "partial"
    /\ requests' = [requests EXCEPT !.partial = @ + 1]
    /\ LET start == jsonStartIndex(message.content)
           prefixText == SubSeq(message.content, 1, start - 1)
           partialJson == SubSeq(message.content, start, Len(message.content))
           kept == [message EXCEPT !.content = Trim(prefixText)]
       IN \/ \* the request throws
             /\ UNCHANGED <<message, toolCallsToExecute>>
          \/ \* the completion carries native tool calls
             /\ toolCallsToExecute' = <<WebSearchCall(<<"x">>)>>
             /\ message' = kept
          \/ \* the completion carries content
             \E cc \in PartialCompletions :
                LET full == ParseToolCallsObject(partialJson \o cc)
                    brackets == {i \in 1..Len(cc) : cc[i] = "["}
                    closers == {i \in 1..Len(cc) : cc[i] = "]"}
                    arr == IF brackets # {} /\ closers # {} /\ Min(brackets) < Max(closers)
                           THEN ParseArray(SubSeq(cc, Min(brackets), Max(closers)))
                           ELSE ParseFail
                IN IF cc = <<>> THEN UNCHANGED <<message, toolCallsToExecute>>
                   ELSE IF full.ok
                   THEN IF Len(full.calls) > 0
                        THEN toolCallsToExecute' = full.calls /\ message' = kept
                        ELSE UNCHANGED <<message, toolCallsToExecute>>
                   ELSE IF arr.ok /\ Len(arr.calls) > 0
                        THEN toolCallsToExecute' = arr.calls /\ message' = kept
                        ELSE UNCHANGED <<message, toolCallsToExecute>>
    /\ chatPc' = AfterExtraction(toolCallsToExecute')
    /\ UNCHANGED <<contextualMessages, updatedMessages, given, toolIdx, toolMessages, chatOut>>
    /\ UNCHANGED nonChatVars

\* A tool loop that also goes on to the next call when the name is not that of
\* a tool: such a call would leave no message.
ValidStructureKnown(toolCall) == toolCall.name \in {"WebSearch", "CodeRunner", "Calculator"}

\* The tool loop goes on to the next call when function or function.name is
\* missing or empty.
ValidStructure(toolCall) == toolCall.name # ""

\* A loop that takes its last call for done.
LoopOverEarly(idx, calls) == idx >= Len(calls)

\* for (const toolCall of toolCallsToExecute): every call has been taken.
LoopOver(idx, calls) == idx > Len(calls)

\* One iteration of the tool loop. The tool route's JSON body is the tool
\* result, whatever the status: "result", or "route error" for the body of a
\* 4xx or 5xx response; a rejected fetch or a body that is not JSON is caught.
ChatRunTool ==
    /\ chatPc = "tools"
    /\ ~LoopOver(toolIdx, toolCallsToExecute)
    /\ LET toolCall == toolCallsToExecute[toolIdx]
           push(r) == toolMessages' = Append(toolMessages,
                          Message("tool", toolCall.id, r))
       IN IF toolCall = NullEntry
          THEN \* toolCall.function of null throws, outside the try of the loop
               /\ chatPc' = "fallback"
               /\ UNCHANGED <<toolIdx, toolMessages, requests>>
          ELSE IF ~ValidStructure(toolCall)
          THEN /\ toolIdx' = toolIdx + 1
               /\ UNCHANGED <<chatPc, toolMessages, requests>>
          ELSE IF toolCall.name \notin {"WebSearch", "CodeRunner", "Calculator"}
          THEN /\ push("unknown tool")
               /\ toolIdx' = toolIdx + 1
               /\ UNCHANGED <<chatPc, requests>>
          ELSE IF toolCall.arguments = <<"notjson">>
          THEN /\ push("failed to execute")
               /\ toolIdx' = toolIdx + 1
               /\ UNCHANGED <<chatPc, requests>>
          ELSE \* await fetch(...) of the tool route
               /\ requests' = [requests EXCEPT !.tool = @ + 1]
               /\ chatPc' = "awaiting"
               /\ UNCHANGED <<toolIdx, toolMessages>>
    /\ UNCHANGED <<contextualMessages, updatedMessages, given, message, toolCallsToExecute, chatOut>>
    /\ UNCHANGED nonChatVars

\* The awaited fetch of the tool route settles and the loop goes on: the body
\* of the response is the result, or the catch of the loop makes one.
ChatToolReturns ==
    /\ chatPc = "awaiting"
    /\ \E r \in {"result", "route error", "failed to execute"} :
          toolMessages' = Append(toolMessages,
                                 Message("tool", toolCallsToExecute[toolIdx].id, r))
    /\ toolIdx' = toolIdx + 1
    /\ chatPc' = "tools"
    /\ UNCHANGED <<contextualMessages, updatedMessages, given, message, toolCallsToExecute,
                   chatOut, requests>>
    /\ UNCHANGED nonChatVars

\* The streaming completion with the tool results.
ChatFollowUp ==
    /\ chatPc = "tools"
    /\ LoopOver(toolIdx, toolCallsToExecute)
    /\ requests' = [requests EXCEPT !.followUp = @ + 1]
    /\ updatedMessages' = UpdatedMessages(contextualMessages, message, toolMessages)
    /\ \/ /\ chatOut' = [kind |-> "final", status |-> 200, text |-> <<>>,
                         toolMessages |-> toolMessages]
          /\ chatPc' = "done"
       \/ /\ chatPc' = "fallback"
          /\ UNCHANGED chatOut
    /\ UNCHANGED <<contextualMessages, given, message, toolCallsToExecute, toolIdx, toolMessages>>
    /\ UNCHANGED nonChatVars

\* No tools called: the content is returned as a stream of one chunk.
ChatNoTools ==
    /\ chatPc = "respond"
    /\ chatOut' = [kind |-> "direct", status |-> 200, text |-> NoToolsContent(message),
                 toolMessages |-> <<>>]
    /\ chatPc' = "done"
    /\ UNCHANGED <<contextualMessages, updatedMessages, given, message, toolCallsToExecute, toolIdx, toolMessages, requests>>
    /\ UNCHANGED nonChatVars

\* The catch of the tool calling flow: streaming without tool handling, from a
\* completion request with contextualMessages alone, neither the assistant
\* message nor toolMessages.
ChatFallback ==
    /\ chatPc = "fallback"
    /\ requests' = [requests EXCEPT !.fallback = @ + 1]
    /\ \/ chatOut' = [kind |-> "fallback", status |-> 200, text |-> <<>>,
                      toolMessages |-> <<>>]
       \/ chatOut' = [kind |-> "error", status |-> 500, text |-> <<>>,
                      toolMessages |-> <<>>]
    /\ chatPc' = "done"
    /\ UNCHANGED <<contextualMessages, updatedMessages, given, message, toolCallsToExecute, toolIdx, toolMessages>>
    /\ UNCHANGED nonChatVars

ChatNext ==
    \/ ChatRequest
    \/ ChatCompletionFails
    \/ ChatExtract
    \/ ChatPartial
    \/ ChatRunTool
    \/ ChatToolReturns
    \/ ChatFollowUp
    \/ ChatNoTools
    \/ ChatFallback

-----------------------------------------------------------------------------
(* Tool execution endpoint: api/execTool/route.ts *)

\* JSON values of a request body: a type and a rendering of the value.
J(t, v) == [type |-> t, v |-> v]
Undefined == J("undefined", "")
Null == J("null", "")
Str(v) == J("string", v)
Num(v) == J("number", v)
Obj(v) == J("object", v)

\* JavaScript truthiness: !x is true for undefined, null, '', 0 and false.
Truthy(j) ==
    ~ \/ j.type \in {"undefined", "null"}
      \/ (j.type = "string" /\ j.v = "")
      \/ (j.type = "number" /\ j.v = "0")
      \/ (j.type = "boolean" /\ j.v = "false")

\* The allow-list with the scrape tool of the switch added to it.
allowedToolsWithScrape == {"WebSearch", "Calculator", "CodeRunner", "WebScrape"}

allowedTools == {"WebSearch", "Calculator", "CodeRunner"}

\* allowedTools.includes(name): strict equality with one of the strings.
Allowed(name) == name.type = "string" /\ name.v \in allowedTools

\* The case of `switch (name)` and the tool route it fetches.
SwitchCase(name) ==
    IF name.type = "string" /\ name.v \in {"WebSearch", "Calculator", "CodeRunner", "WebScrape"}
    THEN name.v ELSE "default"

RouteOf(case) ==
    CASE case = "WebSearch" -> "/api/tools/websearch"
      [] case = "Calculator" -> "/api/tools/calculator"
      [] case = "CodeRunner" -> "/api/tools/code-runner"
      [] case = "WebScrape" -> "/api/tools/webscrape"
      [] OTHER -> "none"

ExecNames == {Undefined, Str(""), Str("WebSearch"), Str("Calculator"), Str("CodeRunner"),
              Str("WebScrape"), Str("DataProcessor"), Num("5"), J("array", "WebSearch")}
ExecArgs == {Undefined, Null, Str(""), Str("x"), Obj("{}")}
ExecIds == {Undefined, Str(""), Num("0"), Str("WebSearch-1")}

\* The bodies /api/execTool can be sent: an object, or something req.json() or
\* the destructuring throws on.
ExecRequests ==
    [kind : {"object"}, name : ExecNames, arguments : ExecArgs, id : ExecIds]
    \cup {[kind |-> "invalid", name |-> Undefined, arguments |-> Undefined, id |-> Undefined]}

NoExecReq == [kind |-> "none", name |-> Undefined, arguments |-> Undefined, id |-> Undefined]
NoFetch == [route |-> "none", body |-> Undefined]
NoToolRes == [kind |-> "none", status |-> 0, success |-> FALSE, results |-> "none"]
NoExecRes == [status |-> 0, success |-> FALSE, result |-> NoToolRes]

\* What a fetch of a tool route can come back with: a response with a JSON body,
\* or a rejection.
ToolResponses ==
    {[kind |-> "response", status |-> 200, success |-> TRUE, results |-> "results"],
     [kind |-> "response", status |-> 200, success |-> FALSE, results |-> "none"],
     [kind |-> "response", status |-> 400, success |-> FALSE, results |-> "none"],
     [kind |-> "response", status |-> 500, success |-> FALSE, results |-> "none"],
     [kind |-> "rejected", status |-> 0, success |-> FALSE, results |-> "none"]}

ExecInit ==
    /\ execPc = "idle"
    /\ execReq = NoExecReq
    /\ execRes = NoExecRes
    /\ switchCase = "none"
    /\ toolFetch = NoFetch
    /\ toolRes = NoToolRes

\* A request arrives at /api/execTool.
ExecArrives ==
    /\ execPc = "idle"
    /\ \E r \in ExecRequests : execReq' = r
    /\ execPc' = "received"
    /\ UNCHANGED <<execRes, switchCase, toolFetch, toolRes>>
    /\ UNCHANGED nonExecVars

\* POST, up to the fetch of the tool route: the validation, the allow-list and
\* the switch.
ExecPost ==
    /\ execPc = "received"
    /\ IF execReq.kind = "invalid"
       THEN /\ execRes' = [status |-> 500, success |-> FALSE, result |-> NoToolRes]
            /\ execPc' = "done"
            /\ UNCHANGED <<switchCase, toolFetch>>
       ELSE IF ~Truthy(execReq.name) \/ ~Truthy(execReq.arguments) \/ ~Truthy(execReq.id)
       THEN /\ execRes' = [status |-> 400, success |-> FALSE, result |-> NoToolRes]
            /\ execPc' = "done"
            /\ UNCHANGED <<switchCase, toolFetch>>
       ELSE IF ~Allowed(execReq.name)
       THEN /\ execRes' = [status |-> 400, success |-> FALSE, result |-> NoToolRes]
            /\ execPc' = "done"
            /\ UNCHANGED <<switchCase, toolFetch>>
       ELSE /\ switchCase' = SwitchCase(execReq.name)
            /\ IF SwitchCase(execReq.name) = "default"
               THEN /\ execRes' = [status |-> 400, success |-> FALSE, result |-> NoToolRes]
                    /\ execPc' = "done"
                    /\ UNCHANGED toolFetch
               ELSE /\ toolFetch' = [route |-> RouteOf(SwitchCase(execReq.name)),
                                     body |-> execReq.arguments]
                    /\ execPc' = "fetch"
                    /\ UNCHANGED execRes
    /\ UNCHANGED <<execReq, toolRes>>
    /\ UNCHANGED nonExecVars

\* The tool route, seen from the endpoint: some response or a rejection.
ToolRouteResponds ==
    /\ execPc = "fetch"
    /\ toolRes = NoToolRes
    /\ \E r \in ToolResponses : toolRes' = r
    /\ UNCHANGED <<execPc, execReq, execRes, switchCase, toolFetch>>
    /\ UNCHANGED nonExecVars

\* POST, after the fetch: response.ok gives the result, anything else an error;
\* the status is 200 for success and 400 otherwise.
ExecReceive ==
    /\ execPc = "fetch"
    /\ toolRes # NoToolRes
    /\ LET ok == toolRes.kind = "response" /\ toolRes.status = 200
       IN execRes' = [status |-> IF ok THEN 200 ELSE 400,
                      success |-> ok,
                      result |-> IF ok THEN toolRes ELSE NoToolRes]
    /\ execPc' = "done"
    /\ UNCHANGED <<execReq, switchCase, toolFetch, toolRes>>
    /\ UNCHANGED nonExecVars

ExecNext == ExecArrives \/ ExecPost \/ ToolRouteResponds \/ ExecReceive

-----------------------------------------------------------------------------
(* Web search route: api/tools/websearch/route.ts (DuckDuckGo) and the      *)
(* Brave Search variant of the same route built on lib/api-utils.           *)

\* The strings a query is drawn from, with what the validation reads of them:
\* length, length after trim(), and trim().split(/\s+/).length.
QueryStrings == {"", "   ", "cats", " cats ", "comet atlas", "len450", "len501", "words51"}

StringLength(s) ==
    CASE s = "" -> 0 [] s = "   " -> 3 [] s = "cats" -> 4 [] s = " cats " -> 6
      [] s = "comet atlas" -> 11 [] s = "len450" -> 450 [] s = "len501" -> 501
      [] s = "words51" -> 101 [] s = "len1000" -> 1000 [] s = "len1001" -> 1001
      [] s = "padded1001" -> 1001

TrimLength(s) ==
    CASE s = "" -> 0 [] s = "   " -> 0 [] s = "cats" -> 4 [] s = " cats " -> 4
      [] s = "comet atlas" -> 11 [] s = "len450" -> 450 [] s = "len501" -> 501
      [] s = "words51" -> 101 [] s = "len1000" -> 1000 [] s = "len1001" -> 1001
      [] s = "padded1001" -> 1000

WordCount(s) ==
    CASE s = "comet atlas" -> 2 [] s = "words51" -> 51 [] OTHER -> 1

QueryValues ==
    {Undefined, Null, Num("0"), Num("5"), J("boolean", "true"), Obj("{}"),
     J("array", "cats")} \cup {Str(s) : s \in QueryStrings}

\* max_results: absent, a number, or a string that reads as a number.
MaxResultsValues ==
    {[type |-> "undefined", n |-> 0], [type |-> "null", n |-> 0], [type |-> "string", n |-> 5]}
    \cup [type : {"number"}, n : {0, 1, 5, 10, 11, 20, 21}]

SearchBodies ==
    [kind : {"object"}, query : QueryValues, max_results : MaxResultsValues,
     scrape_first : BOOLEAN]
    \cup [kind : {"null", "unparsable", "primitive"}, query : {Undefined},
          max_results : {[type |-> "undefined", n |-> 0]}, scrape_first : {FALSE}]

NoSearchReq == [kind |-> "none", query |-> Undefined,
                max_results |-> [type |-> "undefined", n |-> 0], scrape_first |-> FALSE]
NoSearchRes == [status |-> 0, success |-> FALSE, count |-> 0, source |-> "none"]

Deployments == [variant : {"ddg", "brave"}, apiKey : BOOLEAN]

\* `max_results = 5` of the destructuring: the default replaces undefined only.
MaxResultsOf(b) ==
    IF b.max_results.type = "undefined" THEN [type |-> "number", n |-> 5] ELSE b.max_results

\* websearch/route.ts lines 27-60: the status of the rejection, 0 when the
\* request passes. A null body makes the destructuring throw, an unparsable
\* one makes req.json() throw: both end in the outer catch.
DdgValidation(b) ==
    IF b.kind \in {"null", "unparsable"} THEN 500
    ELSE IF \/ ~Truthy(b.query)
            \/ b.query.type # "string"
            \/ TrimLength(b.query.v) = 0 THEN 400
    ELSE IF StringLength(b.query.v) > 500 THEN 400
    ELSE IF MaxResultsOf(b).n < 1 \/ MaxResultsOf(b).n > 10 THEN 400
    ELSE 0

\* validateRequestBody(body, ['query'])
validateRequestBody(b) ==
    IF b.kind \in {"null", "primitive"} THEN 400
    ELSE IF b.query.type \in {"undefined", "null"} THEN 400
    ELSE 0

\* validateStringField measuring the value as given instead of trimmed.
validateStringFieldUntrimmed(value, minLength, maxLength) ==
    IF value.type # "string" THEN 400
    ELSE IF StringLength(value.v) < minLength THEN 400
    ELSE IF StringLength(value.v) > maxLength THEN 400
    ELSE 0

\* validateStringField(value, name, minLength, maxLength)
validateStringField(value, minLength, maxLength) ==
    IF value.type # "string" THEN 400
    ELSE IF TrimLength(value.v) < minLength THEN 400
    ELSE IF TrimLength(value.v) > maxLength THEN 400
    ELSE 0

\* validateNumericField(value, name, min, max)
validateNumericField(value, min, max) ==
    IF value.type # "number" THEN 400
    ELSE IF value.n < min THEN 400
    ELSE IF value.n > max THEN 400
    ELSE 0

\* validateEnvVar
validateEnvVar(configured) == IF configured THEN 0 ELSE 500

\* The Brave variant, lines 368-397 of its file.
BraveValidation(b, apiKey) ==
    IF b.kind = "unparsable" THEN 500
    ELSE IF validateRequestBody(b) # 0 THEN validateRequestBody(b)
    ELSE IF validateStringField(b.query, 1, 400) # 0 THEN validateStringField(b.query, 1, 400)
    ELSE IF WordCount(b.query.v) > 50 THEN 400
    ELSE IF validateNumericField(MaxResultsOf(b), 1, 20) # 0
         THEN validateNumericField(MaxResultsOf(b), 1, 20)
    ELSE validateEnvVar(apiKey)

SearchValidation(d, b) ==
    IF d.variant = "ddg" THEN DdgValidation(b) ELSE BraveValidation(b, d.apiKey)

\* The fallback results: by the words of the query.
FallbackCount(d, b) ==
    IF b.query.v = "comet atlas" THEN (IF d.variant = "ddg" THEN 3 ELSE 2) ELSE 1

\* What the Instant Answer body holds: an Answer with its AnswerType, an
\* Abstract that differs from the answer, the RelatedTopics and the content of
\* the Infobox, each item TRUE when it has the two fields the route asks for.
ItemLists == UNION {[1..n -> BOOLEAN] : n \in 0..MaxProviderResults}
DdgBodies == [answer : BOOLEAN, abstract : BOOLEAN, related : ItemLists, infobox : ItemLists]

\* Array.prototype.slice(0, end) on a list of len items: the number of items
\* taken; a negative end counts from the end of the list.
SliceEnd(len, end) ==
    IF end < 0 THEN (IF len + end > 0 THEN len + end ELSE 0)
    ELSE IF end < len THEN end ELSE len

\* The items among the first k of a list that are pushed.
Pushed(items, k) == Cardinality({i \in 1..k : items[i]})

\* results.length before the final slice: answer, abstract, related topics
\* from slice(0, max_results - results.length), infobox items from
\* slice(0, Math.max(0, max_results - results.length)).
Assembled(data, max) ==
    LET afterAnswer == IF data.answer THEN 1 ELSE 0
        afterAbstract == afterAnswer + (IF data.abstract THEN 1 ELSE 0)
        afterRelated ==
            afterAbstract
            + Pushed(data.related, SliceEnd(Len(data.related), max - afterAbstract))
        room == IF max - afterRelated > 0 THEN max - afterRelated ELSE 0
    IN afterRelated + Pushed(data.infobox, SliceEnd(Len(data.infobox), room))

\* The results kept of n usable items of the provider: slice(0, max_results).
KeptCount(n, b) == IF n < MaxResultsOf(b).n THEN n ELSE MaxResultsOf(b).n

SearchInit ==
    /\ searchPc = "idle"
    /\ deploy = [variant |-> "ddg", apiKey |-> FALSE]
    /\ searchReq = NoSearchReq
    /\ searchRes = NoSearchRes
    /\ providerCalls = 0
    /\ searchTimer = "off"
    /\ timedOut = FALSE

\* A request arrives at /api/tools/websearch, served by one of the variants.
SearchArrives ==
    /\ searchPc = "idle"
    /\ \E d \in Deployments : deploy' = d
    /\ \E b \in SearchBodies : searchReq' = b
    /\ searchPc' = "received"
    /\ UNCHANGED <<searchRes, providerCalls, searchTimer, timedOut>>
    /\ UNCHANGED nonSearchVars

\* POST, up to the provider request: the validation, then the fetch with its
\* timeout armed.
SearchPost ==
    /\ searchPc = "received"
    /\ LET status == SearchValidation(deploy, searchReq)
       IN IF status # 0
          THEN /\ searchRes' = [status |-> status, success |-> FALSE, count |-> 0,
                                source |-> "none"]
               /\ searchPc' = "done"
               /\ UNCHANGED <<providerCalls, searchTimer>>
          ELSE /\ providerCalls' = providerCalls + 1
               /\ searchTimer' = "armed"
               /\ searchPc' = "provider"
               /\ UNCHANGED searchRes
    /\ UNCHANGED <<deploy, searchReq, timedOut>>
    /\ UNCHANGED nonSearchVars

\* The end of the handler once the results are known: the Brave variant scrapes
\* the first result when asked to, through a fetch of /api/tools/webscrape.
SearchFinish(count, source) ==
    /\ searchRes' = [status |-> 200, success |-> TRUE, count |-> count, source |-> source]
    /\ searchTimer' = "off"
    /\ searchPc' = IF deploy.variant = "brave" /\ searchReq.scrape_first /\ count > 0
                   THEN "scrape" ELSE "done"

\* The timeout cleared once the response head has arrived, whatever the route.
TimerAfterHeadCleared(variant) == "off"

\* The timeout once the response head has arrived: with AbortSignal.timeout the
\* signal stays armed while the body is read; fetchWithTimeout clears its timer
\* as soon as fetch resolves.
TimerAfterHead(variant) == IF variant = "ddg" THEN "armed" ELSE "off"

\* The provider's response head arrives, or the fetch is rejected.
ProviderAnswers ==
    /\ searchPc = "provider"
    /\ searchTimer = "armed"
    /\ \/ /\ searchPc' = "body"
          /\ searchTimer' = TimerAfterHead(deploy.variant)
          /\ UNCHANGED searchRes
       \/ \* a status that is not ok, or a network error
          SearchFinish(FallbackCount(deploy, searchReq), "fallback")
    /\ UNCHANGED <<deploy, searchReq, providerCalls, timedOut>>
    /\ UNCHANGED nonSearchVars

\* The provider's body has been read: n usable results, or a body that does not
\* parse or lacks the results.
ProviderBody ==
    /\ searchPc = "body"
    /\ \/ /\ deploy.variant = "ddg"
          /\ \E data \in DdgBodies :
                LET n == Assembled(data, MaxResultsOf(searchReq).n)
                IN IF KeptCount(n, searchReq) = 0
                   THEN SearchFinish(FallbackCount(deploy, searchReq), "fallback")
                   ELSE SearchFinish(KeptCount(n, searchReq), "provider")
       \/ /\ deploy.variant = "brave"
          /\ \E n \in 0..MaxProviderResults :
                SearchFinish(KeptCount(n, searchReq), "provider")
       \/ SearchFinish(FallbackCount(deploy, searchReq), "fallback")
    /\ UNCHANGED <<deploy, searchReq, providerCalls, timedOut>>
    /\ UNCHANGED nonSearchVars

\* The timeout fires: the fetch (or the read of the body) is aborted and the
\* catch of the provider call supplies the fallback results.
ProviderTimeout ==
    /\ searchPc \in {"provider", "body"}
    /\ searchTimer = "armed"
    /\ timedOut' = TRUE
    /\ SearchFinish(FallbackCount(deploy, searchReq), "fallback")
    /\ UNCHANGED <<deploy, searchReq, providerCalls>>
    /\ UNCHANGED nonSearchVars

\* The scrape of the first result comes back, with content or without.
ScrapeAnswers ==
    /\ searchPc = "scrape"
    /\ searchPc' = "done"
    /\ UNCHANGED <<deploy, searchReq, searchRes, providerCalls, searchTimer, timedOut>>
    /\ UNCHANGED nonSearchVars

SearchNext ==
    \/ SearchArrives
    \/ SearchPost
    \/ ProviderAnswers
    \/ ProviderBody
    \/ ProviderTimeout
    \/ ScrapeAnswers

-----------------------------------------------------------------------------
(* Calculator route: api/tools/calculator/route.ts                          *)
(* An expression is a sequence of atoms: number literals, operators,        *)
(* parentheses, names and whitespace.                                       *)

\* ---- JavaScript numbers ----
\* "rat": the rational n/d in lowest terms; "real": a finite number whose value
\* is not tracked; "inf": Infinity or -Infinity; "nan": NaN.
Abs(n) == IF n < 0 THEN -n ELSE n

RECURSIVE GCD(_, _)
GCD(a, b) == IF b = 0 THEN a ELSE GCD(b, a % b)

Val(k, n, d) == [k |-> k, n |-> n, d |-> d]
NaNV == Val("nan", 0, 1)
InfV == Val("inf", 0, 1)
RealV == Val("real", 0, 1)

Rat(n, d) ==
    LET g == GCD(Abs(n), Abs(d))
        sgn == IF d < 0 THEN -1 ELSE 1
    IN Val("rat", sgn * (n \div g), sgn * (d \div g))

Whole(n) == Val("rat", n, 1)

\* isFinite(v)
IsFinite(v) == v.k \in {"rat", "real"}

IsZero(v) == v.k = "rat" /\ v.n = 0

Neg(a) == IF a.k = "rat" THEN Val("rat", -a.n, a.d) ELSE a

Add(a, b) ==
    IF a.k = "nan" \/ b.k = "nan" THEN NaNV
    ELSE IF a.k = "inf" \/ b.k = "inf" THEN InfV
    ELSE IF a.k = "rat" /\ b.k = "rat" THEN Rat(a.n * b.d + b.n * a.d, a.d * b.d)
    ELSE RealV

Sub(a, b) == Add(a, Neg(b))

Div(a, b) ==
    IF a.k = "nan" \/ b.k = "nan" THEN NaNV
    ELSE IF a.k = "inf" THEN (IF b.k = "inf" THEN NaNV ELSE InfV)
    ELSE IF b.k = "inf" THEN Whole(0)
    ELSE IF IsZero(b) THEN (IF IsZero(a) THEN NaNV ELSE InfV)
    ELSE IF IsZero(a) THEN Whole(0)
    ELSE IF a.k = "rat" /\ b.k = "rat" THEN Rat(a.n * b.d, a.d * b.n)
    ELSE RealV

IsSquare(n) == \E r \in 0..n : r * r = n
Root(n) == CHOOSE r \in 0..n : r * r = n

\* Math.sqrt
Sqrt(a) ==
    IF a.k \in {"nan", "inf", "real"} THEN a
    ELSE IF a.n < 0 THEN NaNV
    ELSE IF IsSquare(a.n) /\ IsSquare(a.d) THEN Rat(Root(a.n), Root(a.d))
    ELSE RealV

\* d has no prime factor other than 2 and 5, each at most e times: n/d is
\* written with e decimals.
RECURSIVE Strip(_, _, _)
Strip(d, p, e) == IF e > 0 /\ d % p = 0 THEN Strip(d \div p, p, e - 1) ELSE d

HasDecimals(d, e) == Strip(Strip(d, 2, e), 5, e) = 1

\* Number(v.toFixed(10)): a number of at most ten decimals is kept, another is
\* rounded to one.
ToFixed10(v) ==
    IF v.k = "rat" /\ ~HasDecimals(v.d, 10) THEN RealV ELSE v

\* Number(v.toFixed(6)): n/d rounded to a multiple of 10^-6, half away from zero.
ToFixed6(v) ==
    IF v.k # "rat" THEN v
    ELSE LET m == (2 * Abs(v.n) * 1000000 + v.d) \div (2 * v.d)
         IN Rat((IF v.n < 0 THEN -1 ELSE 1) * m, 1000000)


\* ---- evaluateExpression ----
NumberAtoms == {"0", "2", "16"}
NameAtoms == {"foo", "sqrt", "Math.sqrt", "Date.now()"}
WordAtoms == NumberAtoms \cup NameAtoms
ExprAtoms == {"0", "2", "16", "+", "-", "/", "(", ")", " ", "sqrt", "foo", "Date.now()", ";"}

AtomValue(c) == CASE c = "0" -> 0 [] c = "2" -> 2 [] c = "16" -> 16
AtomDigits(c) == IF c = "16" THEN 100 ELSE 10

\* .replace(/\s+/g, '')
RemoveWhitespace(s) == SelectSeq(s, LAMBDA c : c # " ")

\* .replace(/\bsqrt\(/g, 'Math.sqrt('): the name at a word boundary, before "(".
RECURSIVE ReplaceSqrt(_, _)
ReplaceSqrt(s, i) ==
    IF i > Len(s) THEN <<>>
    ELSE (IF /\ s[i] = "sqrt"
             /\ At(s, i + 1) = "("
             /\ At(s, i - 1) \notin WordAtoms
          THEN <<"Math.sqrt">> ELSE <<s[i]>>) \o ReplaceSqrt(s, i + 1)

cleanExpression(expression) == ReplaceSqrt(RemoveWhitespace(expression), 1)

\* /^[0-9+\-*/().\sMath\w]+$/ : \w admits every letter, so every name passes.
safePattern(s) ==
    /\ s # <<>>
    /\ \A i \in 1..Len(s) : s[i] # ";"

\* The names of an evaluated text that are not the listed functions.
ForeignNames(s) == {i \in 1..Len(s) : s[i] \in {"foo", "sqrt", "Date.now()"}}

\* Function(`"use strict"; return (${text})`)() : the value, or a throw. The
\* text is read as a JavaScript expression: "++", "--" and "//" are one token
\* each, a leading zero makes a literal illegal in strict mode, a name that is
\* not declared throws, a call of a number throws.
Thrown == [ok |-> FALSE, next |-> 0, val |-> NaNV]
Parsed(next, val) == [ok |-> TRUE, next |-> next, val |-> val]

RECURSIVE LiteralEnd(_, _)
LiteralEnd(s, i) == IF At(s, i + 1) \in NumberAtoms THEN LiteralEnd(s, i + 1) ELSE i

RECURSIVE LiteralValue(_, _, _)
LiteralValue(s, i, j) ==
    IF i = j THEN AtomValue(s[j])
    ELSE LiteralValue(s, i, j - 1) * AtomDigits(s[j]) + AtomValue(s[j])

RECURSIVE ParseExpr(_, _)
RECURSIVE ParseExprRest(_, _, _)
RECURSIVE ParseTerm(_, _)
RECURSIVE ParseTermRest(_, _, _)
RECURSIVE ParseUnary(_, _)
RECURSIVE ParsePrimary(_, _)

\* A primary is followed by an operator, ")" or the end.
Followed(s, p) ==
    IF p.ok /\ (At(s, p.next) \in WordAtoms \/ At(s, p.next) = "(") THEN Thrown ELSE p

ParsePrimary(s, i) ==
    LET c == At(s, i)
    IN IF c \in NumberAtoms
       THEN LET j == LiteralEnd(s, i)
            IN IF j > i /\ c = "0" THEN Thrown
               ELSE Followed(s, Parsed(j + 1, Whole(LiteralValue(s, i, j))))
       ELSE IF c = "("
       THEN LET e == ParseExpr(s, i + 1)
            IN IF e.ok /\ At(s, e.next) = ")"
               THEN Followed(s, Parsed(e.next + 1, e.val)) ELSE Thrown
       ELSE IF c = "Math.sqrt" /\ At(s, i + 1) = "("
       THEN IF At(s, i + 2) = ")" THEN Followed(s, Parsed(i + 3, NaNV))
            ELSE LET e == ParseExpr(s, i + 2)
                 IN IF e.ok /\ At(s, e.next) = ")"
                    THEN Followed(s, Parsed(e.next + 1, Sqrt(e.val))) ELSE Thrown
       ELSE IF c = "Date.now()" THEN Followed(s, Parsed(i + 1, RealV))
       ELSE Thrown

ParseUnary(s, i) ==
    LET c == At(s, i)
    IN IF c \in {"+", "-"}
       THEN IF At(s, i + 1) = c THEN Thrown
            ELSE LET u == ParseUnary(s, i + 1)
                 IN IF ~u.ok THEN Thrown
                    ELSE Parsed(u.next, IF c = "-" THEN Neg(u.val) ELSE u.val)
       ELSE ParsePrimary(s, i)

ParseTermRest(s, i, acc) ==
    IF At(s, i) = "/"
    THEN IF At(s, i + 1) = "/" THEN Thrown
         ELSE LET u == ParseUnary(s, i + 1)
              IN IF u.ok THEN ParseTermRest(s, u.next, Div(acc, u.val)) ELSE Thrown
    ELSE Parsed(i, acc)

ParseTerm(s, i) ==
    LET u == ParseUnary(s, i)
    IN IF u.ok THEN ParseTermRest(s, u.next, u.val) ELSE Thrown

ParseExprRest(s, i, acc) ==
    LET c == At(s, i)
    IN IF c \in {"+", "-"}
       THEN IF At(s, i + 1) = c THEN Thrown
            ELSE LET t == ParseTerm(s, i + 1)
                 IN IF ~t.ok THEN Thrown
                    ELSE ParseExprRest(s, t.next,
                                       IF c = "+" THEN Add(acc, t.val) ELSE Sub(acc, t.val))
       ELSE Parsed(i, acc)

ParseExpr(s, i) ==
    LET t == ParseTerm(s, i)
    IN IF t.ok THEN ParseExprRest(s, t.next, t.val) ELSE Thrown

Evaluate(text) ==
    LET s == <<"(">> \o text \o <<")">>
        p == ParseExpr(s, 1)
    IN IF p.ok /\ p.next = Len(s) + 1 THEN p ELSE Thrown

NoResult == [success |-> FALSE, result |-> NaNV, hasResult |-> FALSE]
Success(v) == [success |-> TRUE, result |-> v, hasResult |-> TRUE]

\* evaluateExpression(expression): the response and the text handed to Function
\* (<<>> when none is).
evaluateExpression(expression) ==
    LET clean == cleanExpression(expression)
        r == Evaluate(clean)
    IN IF ~safePattern(clean) THEN [res |-> NoResult, body |-> <<>>]
       ELSE IF ~r.ok \/ ~IsFinite(r.val) THEN [res |-> NoResult, body |-> clean]
       ELSE [res |-> Success(ToFixed10(r.val)), body |-> clean]


\* ---- solveEquation ----
DigitAtoms == {"0", "1", "2", "3", "7"}

DigitValue(c) == CASE c = "0" -> 0 [] c = "1" -> 1 [] c = "2" -> 2 [] c = "3" -> 3 [] c = "7" -> 7

\* The end of the run of digits that starts at i (i - 1 when there is none).
RECURSIVE DigitsEnd(_, _)
DigitsEnd(s, i) == IF At(s, i) \in DigitAtoms THEN DigitsEnd(s, i + 1) ELSE i - 1

RECURSIVE DigitsValue(_, _, _)
DigitsValue(s, i, j) ==
    IF j < i THEN 0 ELSE DigitsValue(s, i, j - 1) * 10 + DigitValue(s[j])

\* parseFloat: leading whitespace, a sign, the longest run of digits; NaN when
\* there is no digit. What follows the digits is ignored.
parseFloat(s) ==
    LET i == SkipWs(s, 1)
        signed == At(s, i) \in {"+", "-"}
        b == IF signed THEN i + 1 ELSE i
        e == DigitsEnd(s, b)
    IN IF e < b THEN NaNV
       ELSE Whole((IF At(s, i) = "-" THEN -1 ELSE 1) * DigitsValue(s, b, e))

\* expression.includes('=')
IncludesEquals(s) == \E i \in 1..Len(s) : s[i] = "="

\* expression.split('=').map(side => side.trim()), its first two elements.
SplitEquals(s) ==
    LET eqs == {i \in 1..Len(s) : s[i] = "="}
        first == Min(eqs)
        later == {i \in eqs : i > first}
        stop == IF later = {} THEN Len(s) + 1 ELSE Min(later)
    IN [left |-> Trim(SubSeq(s, 1, first - 1)),
        right |-> Trim(SubSeq(s, first + 1, stop - 1))]

NoLeftMatch == [found |-> FALSE, g1 |-> <<>>, g2 |-> <<>>]

\* left.match(/^(-?\d*)x\s*([+-]\s*\d+)?$/): group 2 is <<>> when it is absent.
LeftMatch(left) ==
    LET d == IF At(left, 1) = "-" THEN 2 ELSE 1
        x == DigitsEnd(left, d) + 1
        g == SkipWs(left, x + 1)
        n == SkipWs(left, g + 1)
        e == DigitsEnd(left, n)
    IN IF At(left, x) # "x" THEN NoLeftMatch
       ELSE IF g > Len(left)
       THEN [found |-> TRUE, g1 |-> SubSeq(left, 1, x - 1), g2 |-> <<>>]
       ELSE IF At(left, g) \in {"+", "-"} /\ e >= n /\ e = Len(left)
       THEN [found |-> TRUE, g1 |-> SubSeq(left, 1, x - 1), g2 |-> SubSeq(left, g, e)]
       ELSE NoLeftMatch

\* parseFloat(leftMatch[1] || '1')
Coefficient(g1) == parseFloat(IF g1 = <<>> THEN <<"1">> ELSE g1)

\* parseFloat((leftMatch[2] || '0').replace(/\s/g, ''))
Constant(g2) == parseFloat(IF g2 = <<>> THEN <<"0">> ELSE RemoveWhitespace(g2))

solveEquation(expression) ==
    IF ~IncludesEquals(expression) THEN NoResult
    ELSE LET sides == SplitEquals(expression)
             leftMatch == LeftMatch(sides.left)
             rightNum == parseFloat(sides.right)
             a == Coefficient(leftMatch.g1)
             b == Constant(leftMatch.g2)
         IN IF leftMatch.found /\ rightNum.k # "nan"
            THEN IF IsZero(a) THEN NoResult
                 ELSE Success(ToFixed6(Div(Sub(rightNum, b), a)))
            ELSE NoResult


\* ---- POST ----
\* The expressions of at most maxLen atoms.
Exprs(maxLen) == UNION {[1..n -> ExprAtoms] : n \in 0..maxLen}

\* Linear equations a x + b = c as they are written, with the numbers meant.
CoefTexts ==
    {[text |-> <<>>, n |-> 1], [text |-> <<"-">>, n |-> -1], [text |-> <<"2">>, n |-> 2],
     [text |-> <<"-", "2">>, n |-> -2], [text |-> <<"3">>, n |-> 3],
     [text |-> <<"2", "0">>, n |-> 20], [text |-> <<"0">>, n |-> 0],
     [text |-> <<"-", "0">>, n |-> 0]}
ConstTexts ==
    {[text |-> <<"+", "3">>, n |-> 3], [text |-> <<" ", "+", " ", "3">>, n |-> 3],
     [text |-> <<"-", "7">>, n |-> -7], [text |-> <<" ", "-", " ", "2", "0">>, n |-> -20],
     [text |-> <<"+", "0">>, n |-> 0]}
RightTexts ==
    {[text |-> <<"7">>, n |-> 7], [text |-> <<" ", "7", " ">>, n |-> 7],
     [text |-> <<"-", "3">>, n |-> -3], [text |-> <<"0">>, n |-> 0],
     [text |-> <<"2", "7">>, n |-> 27]}

NoForm == [linear |-> FALSE, a |-> 0, b |-> 0, c |-> 0]

LinearEquations ==
    {[expression |-> x[1].text \o <<"x">> \o x[2].text \o x[4] \o <<"=">> \o x[3].text,
      form |-> [linear |-> TRUE, a |-> x[1].n, b |-> x[2].n, c |-> x[3].n]]
        : x \in CoefTexts \X ConstTexts \X RightTexts \X {<<>>, <<" ">>}}

EquationAtoms == {"0", "2", "x", "+", "-", "=", " "}
OtherEquations(maxLen) ==
    {[expression |-> e, form |-> NoForm]
        : e \in UNION {[1..n -> EquationAtoms] : n \in 1..maxLen}}

Operations == {"evaluate", "solve", "simplify", "derivative", "integral", "factor", ""}

CalcRequest(kind, operation, type, expression, form) ==
    [kind |-> kind, operation |-> operation, type |-> type, expression |-> expression,
     form |-> form]

\* The bodies sent to /api/tools/calculator. The type of the expression is
\* "string", "long" for a string of more than 1000 characters, or "number".
CalcRequests(exprLen, eqLen) ==
    {CalcRequest("object", "evaluate", "string", e, NoForm) : e \in Exprs(exprLen)}
    \cup {CalcRequest("object", "solve", "string", q.expression, q.form)
            : q \in LinearEquations \cup OtherEquations(eqLen)}
    \cup {CalcRequest("object", x[1], x[2], x[3], NoForm)
            : x \in Operations \X {"string", "long", "number", "undefined"}
                    \X {<<"2">>, <<"2", "+", "2">>}}
    \cup {CalcRequest("invalid", "", "undefined", <<>>, NoForm)}

NoCalcReq == CalcRequest("none", "", "undefined", <<>>, NoForm)
NoCalcRes == [status |-> 0, success |-> FALSE, result |-> NaNV, hasResult |-> FALSE]

CalcResponse(status, r) ==
    [status |-> status, success |-> r.success, result |-> r.result, hasResult |-> r.hasResult]

\* !expression
ExpressionMissing(r) == r.type = "undefined" \/ (r.type = "string" /\ r.expression = <<>>)

CalcInit ==
    /\ calcPc = "idle"
    /\ calcReq = NoCalcReq
    /\ calcRes = NoCalcRes
    /\ functionBody = <<>>

\* A request arrives at /api/tools/calculator.
CalcArrives ==
    /\ calcPc = "idle"
    /\ \E r \in CalcRequests(MaxExprLen, MaxEqLen) : calcReq' = r
    /\ calcPc' = "received"
    /\ UNCHANGED <<calcRes, functionBody>>
    /\ UNCHANGED nonCalcVars

\* POST: the validation, the operation and the response. An expression that
\* is not a string makes evaluateExpression and solveEquation throw inside
\* their own try.
CalcPost ==
    /\ calcPc = "received"
    /\ IF calcReq.kind = "invalid"
       THEN calcRes' = CalcResponse(500, NoResult) /\ functionBody' = <<>>
       ELSE IF ExpressionMissing(calcReq) \/ calcReq.operation = ""
       THEN calcRes' = CalcResponse(400, NoResult) /\ functionBody' = <<>>
       ELSE IF calcReq.operation \notin
                   {"evaluate", "solve", "simplify", "derivative", "integral"}
       THEN calcRes' = CalcResponse(400, NoResult) /\ functionBody' = <<>>
       ELSE IF calcReq.type = "long"
       THEN calcRes' = CalcResponse(400, NoResult) /\ functionBody' = <<>>
       ELSE IF calcReq.type = "number"
       THEN calcRes' = CalcResponse(200, NoResult) /\ functionBody' = <<>>
       ELSE IF calcReq.operation = "evaluate"
       THEN /\ calcRes' = CalcResponse(200, evaluateExpression(calcReq.expression).res)
            /\ functionBody' = evaluateExpression(calcReq.expression).body
       ELSE IF calcReq.operation = "solve"
       THEN /\ calcRes' = CalcResponse(200, solveEquation(calcReq.expression))
            /\ functionBody' = <<>>
       ELSE calcRes' = CalcResponse(200, NoResult) /\ functionBody' = <<>>
    /\ calcPc' = "done"
    /\ UNCHANGED calcReq
    /\ UNCHANGED nonCalcVars

CalcNext == CalcArrives \/ CalcPost

-----------------------------------------------------------------------------
(* A tool dispatch end to end: executeTool of the page through /api/execTool, *)
(* or the tool loop of the chat route, then the tool route and its provider.  *)

\* ---- code runner route: api/tools/code-runner/route.ts ----
\* body.language: absent, '', the two languages, another name, another
\* spelling, and an array holding a language.
CodeLanguages == {"undefined", "", "javascript", "python", "ruby", "JavaScript", "array"}

\* body.code, known by what running it as JavaScript does: it returns a value,
\* throws, does not compile, loops without end, calls print (which JavaScript
\* does not define), returns an object whose toJSON throws, or returns the
\* promise of an async function that throws; "long" is a text of more than
\* 10,000 characters.
CodeTexts == {"undefined", "", "value", "throws", "syntax", "loops", "print", "tojsonthrows",
              "rejects", "long"}

CodeRequest(kind, language, code) == [kind |-> kind, language |-> language, code |-> code]

CodeRequests ==
    {CodeRequest("object", l, c) : l \in CodeLanguages, c \in CodeTexts}
    \cup {CodeRequest("null", "undefined", "undefined"),
          CodeRequest("unparsable", "undefined", "undefined")}

NoCodeReq == CodeRequest("none", "undefined", "undefined")

\* A response of the code runner: the status, success and whether there is an
\* error message in the body; whether the submitted code was run, and whether
\* a rejected promise is left without a handler.
CodeResult(status, success, error, ran, unhandled) ==
    [status |-> status, success |-> success, error |-> error, ran |-> ran,
     unhandled |-> unhandled]

NoCodeRes == CodeResult(0, FALSE, FALSE, FALSE, FALSE)

\* new Function(...)(...) returns or throws once the code has run: never for a
\* loop without end.
CodeReturns(r) == ~(r.kind = "object" /\ r.language = "javascript" /\ r.code = "loops")

\* executeJavaScript: its try covers the compilation and the synchronous run.
executeJavaScript(code) ==
    IF code \in {"throws", "syntax", "print"} THEN CodeResult(200, FALSE, TRUE, TRUE, FALSE)
    ELSE IF code = "rejects" THEN CodeResult(200, TRUE, FALSE, TRUE, TRUE)
    ELSE CodeResult(200, TRUE, FALSE, TRUE, FALSE)

\* executePython: print statements are echoed, nothing is run as Python.
executePython(code) ==
    IF code = "print" THEN CodeResult(200, TRUE, FALSE, FALSE, FALSE)
    ELSE CodeResult(200, FALSE, TRUE, FALSE, FALSE)

\* POST of the code runner for code that returns. JSON.stringify(result) runs
\* outside executeJavaScript: a toJSON that throws ends in the outer catch.
CodeRunnerResponse(r) ==
    IF r.kind \in {"null", "unparsable"} THEN CodeResult(500, FALSE, TRUE, FALSE, FALSE)
    ELSE IF r.language \in {"undefined", ""} \/ r.code \in {"undefined", ""}
    THEN CodeResult(400, FALSE, TRUE, FALSE, FALSE)
    ELSE IF r.language \notin {"python", "javascript"}
    THEN CodeResult(400, FALSE, TRUE, FALSE, FALSE)
    ELSE IF r.code = "long" THEN CodeResult(400, FALSE, TRUE, FALSE, FALSE)
    ELSE IF r.language = "javascript"
    THEN IF r.code = "tojsonthrows" THEN CodeResult(500, FALSE, TRUE, TRUE, FALSE)
         ELSE executeJavaScript(r.code)
    ELSE executePython(r.code)

\* The code the tools are dispatched with.
DispatchCodes ==
    {CodeRequest("object", x[1], x[2])
        : x \in {"javascript", "python", "ruby"} \X {"value", "throws", "loops", "print"}}

\* ---- the calls dispatched ----
DispatchSearches ==
    [kind : {"object"}, query : {Str("cats"), Str("comet atlas"), Str("")},
     max_results : {[type |-> "undefined", n |-> 0]}, scrape_first : BOOLEAN]
\* The calculator is dispatched with equations; SpecCalc covers 'evaluate'.
DispatchCalcs ==
    {CalcRequest("object", "solve", "string", <<"2", "x", "+", "3", "=", "7">>, NoForm),
     CalcRequest("object", "solve", "string", <<"2", "x">>, NoForm),
     CalcRequest("object", "simplify", "string", <<"2", "x">>, NoForm)}

DispatchCall(via, tool, search, calc, code) ==
    [via |-> via, tool |-> tool, search |-> search, calc |-> calc, code |-> code]

NoCode == CodeRequest("object", "javascript", "value")
NoDispatchCall == DispatchCall("none", "none", NoSearchReq, NoCalcReq, NoCode)

DispatchCalls(via) ==
    {DispatchCall(via, "WebSearch", b, NoCalcReq, NoCode) : b \in DispatchSearches}
    \cup {DispatchCall(via, "Calculator", NoSearchReq, c, NoCode) : c \in DispatchCalcs}
    \cup {DispatchCall(via, "CodeRunner", NoSearchReq, NoCalcReq, c) : c \in DispatchCodes}

NoDispatchRes == [success |-> FALSE, results |-> "none"]

DispatchInit ==
    /\ dispatchPc = "idle"
    /\ dispatchCall = NoDispatchCall
    /\ dispatchRes = NoDispatchRes
    /\ codePc = "idle"
    /\ codeReq = NoCodeReq
    /\ codeRes = NoCodeRes

\* executeTool of the page: POST /api/execTool with the call, no timeout.
ExecuteTool ==
    /\ dispatchPc = "idle"
    /\ \E c \in DispatchCalls("execTool") :
        /\ dispatchCall' = c
        /\ execReq' = [kind |-> "object", name |-> Str(c.tool), arguments |-> Obj("args"),
                       id |-> Str("WebSearch-1")]
    /\ \E d \in Deployments : deploy' = d
    /\ execPc' = "received"
    /\ dispatchPc' = "execTool"
    /\ UNCHANGED <<dispatchRes, codePc, codeReq, codeRes>>
    /\ UNCHANGED <<execRes, switchCase, toolFetch, toolRes>>
    /\ UNCHANGED <<searchPc, searchReq, searchRes, providerCalls, searchTimer, timedOut>>
    /\ UNCHANGED <<clientVars, chatVars, calcVars, afterDispatchVars>>

\* The tool loop of the chat route: a fetch of the tool route, no timeout.
ChatToolCall ==
    /\ dispatchPc = "idle"
    /\ \E c \in DispatchCalls("chat") : dispatchCall' = c
    /\ \E d \in Deployments : deploy' = d
    /\ dispatchPc' = "route"
    /\ UNCHANGED <<dispatchRes, codePc, codeReq, codeRes>>
    /\ UNCHANGED <<searchPc, searchReq, searchRes, providerCalls, searchTimer, timedOut>>
    /\ UNCHANGED <<clientVars, chatVars, execVars, calcVars, afterDispatchVars>>

\* The route a fetch is waiting on, "none" when there is none.
RouteAwaited ==
    IF dispatchPc = "route" THEN RouteOf(dispatchCall.tool)
    ELSE IF dispatchPc = "execTool" /\ execPc = "fetch" /\ toolRes = NoToolRes
    THEN toolFetch.route
    ELSE "none"

\* The request reaches the tool route.
RouteReceives ==
    /\ \/ /\ RouteAwaited = "/api/tools/websearch"
          /\ searchPc = "idle"
          /\ searchReq' = dispatchCall.search
          /\ searchPc' = "received"
          /\ UNCHANGED <<calcPc, calcReq, codePc, codeReq>>
       \/ /\ RouteAwaited = "/api/tools/calculator"
          /\ calcPc = "idle"
          /\ calcReq' = dispatchCall.calc
          /\ calcPc' = "received"
          /\ UNCHANGED <<searchPc, searchReq, codePc, codeReq>>
       \/ /\ RouteAwaited = "/api/tools/code-runner"
          /\ codePc = "idle"
          /\ codeReq' = dispatchCall.code
          /\ codePc' = "received"
          /\ UNCHANGED <<searchPc, searchReq, calcPc, calcReq>>
    /\ UNCHANGED <<dispatchPc, dispatchCall, dispatchRes, codeRes>>
    /\ UNCHANGED <<deploy, searchRes, providerCalls, searchTimer, timedOut>>
    /\ UNCHANGED <<calcRes, functionBody>>
    /\ UNCHANGED <<clientVars, chatVars, execVars, afterDispatchVars>>

\* A request arrives at /api/tools/code-runner.
CodeArrives ==
    /\ codePc = "idle"
    /\ \E r \in CodeRequests : codeReq' = r
    /\ codePc' = "received"
    /\ UNCHANGED <<dispatchPc, dispatchCall, dispatchRes, codeRes>>
    /\ UNCHANGED nonDispatchVars

\* POST of the code runner, for code that returns.
CodeRunnerPost ==
    /\ codePc = "received"
    /\ CodeReturns(codeReq)
    /\ codeRes' = CodeRunnerResponse(codeReq)
    /\ codePc' = "done"
    /\ UNCHANGED <<dispatchPc, dispatchCall, dispatchRes, codeReq>>
    /\ UNCHANGED nonDispatchVars

CodeNext == CodeArrives \/ CodeRunnerPost

\* The response of the tool route that has answered, as the fetch sees it.
RouteResponse ==
    IF searchPc = "done"
    THEN [kind |-> "response", status |-> searchRes.status, success |-> searchRes.success,
          results |-> searchRes.source]
    ELSE IF calcPc = "done"
    THEN [kind |-> "response", status |-> calcRes.status, success |-> calcRes.success,
          results |-> IF calcRes.success THEN "results" ELSE "none"]
    ELSE [kind |-> "response", status |-> codeRes.status, success |-> codeRes.success,
          results |-> IF codeRes.success THEN "results" ELSE "none"]

\* The response of the tool route reaches its caller: the endpoint, or the tool
\* loop, which takes the JSON body as the tool result.
RouteResponds ==
    /\ searchPc = "done" \/ calcPc = "done" \/ codePc = "done"
    /\ \/ /\ dispatchPc = "execTool"
          /\ execPc = "fetch"
          /\ toolRes = NoToolRes
          /\ toolRes' = RouteResponse
          /\ UNCHANGED <<dispatchPc, dispatchRes>>
       \/ /\ dispatchPc = "route"
          /\ dispatchRes' = [success |-> RouteResponse.success,
                             results |-> RouteResponse.results]
          /\ dispatchPc' = "done"
          /\ UNCHANGED toolRes
    /\ UNCHANGED <<dispatchCall, codePc, codeReq, codeRes>>
    /\ UNCHANGED <<execPc, execReq, execRes, switchCase, toolFetch>>
    /\ UNCHANGED <<clientVars, chatVars, searchVars, calcVars, afterDispatchVars>>

\* executeTool of the page reads the endpoint's response.
ClientReceives ==
    /\ dispatchPc = "execTool"
    /\ execPc = "done"
    /\ dispatchRes' = [success |-> execRes.success, results |-> execRes.result.results]
    /\ dispatchPc' = "done"
    /\ UNCHANGED <<dispatchCall, codePc, codeReq, codeRes>>
    /\ UNCHANGED nonDispatchVars

DispatchNext ==
    \/ ExecuteTool
    \/ ChatToolCall
    \/ ExecPost
    \/ RouteReceives
    \/ SearchPost
    \/ ProviderAnswers
    \/ ProviderBody
    \/ ProviderTimeout
    \/ ScrapeAnswers
    \/ CalcPost
    \/ CodeRunnerPost
    \/ RouteResponds
    \/ ExecReceive
    \/ ClientReceives

\* What runs whenever it can: the steps of the endpoint and of the search route,
\* the delivery of requests and responses inside the application, and the timer
\* of the provider request. The provider and the scraped site are under no
\* obligation to answer, and nothing is assumed of the tools without a provider.
DispatchFairness ==
    /\ WF_vars(ExecPost)
    /\ WF_vars(RouteReceives)
    /\ WF_vars(SearchPost)
    /\ WF_vars(ProviderTimeout)
    /\ WF_vars(RouteResponds)
    /\ WF_vars(ExecReceive)
    /\ WF_vars(ClientReceives)

-----------------------------------------------------------------------------
(* Grounded-answer route: api/tools/ai-grounding/route.ts, on lib/api-utils *)

\* A response: the status and, of the JSON body, the "success" field ("absent",
\* "true" or "false") and whether it has an "error" message.
ApiResponse(status, success, error) ==
    [status |-> status, success |-> success, error |-> error]

NoGroundRes == ApiResponse(0, "absent", FALSE)

\* createErrorResponse: the body is {error, details, status, timestamp}.
createErrorResponse(status) == ApiResponse(status, "absent", TRUE)

\* createSuccessResponse: the body is {success: true, data, message, timestamp}.
createSuccessResponse == ApiResponse(200, "true", FALSE)

\* A flag of the body: absent, a boolean, null, or a string.
FlagValues == {"undefined", "true", "false", "null", "string"}

\* validateBooleanField with every value let through.
validateBooleanFieldLax(flag) == 0

\* validateBooleanField after the destructuring default, which replaces
\* undefined only: 0 when it passes.
validateBooleanField(flag) == IF flag \in {"null", "string"} THEN 400 ELSE 0

GroundBodies ==
    [kind : {"object"},
     query : {Undefined, Null, Num("5"), Str(""), Str("   "), Str("cats"), Str("len501"),
              Str("len1000"), Str("len1001"), Str("padded1001")},
     enable_research : {"undefined", "string"}, enable_citations : FlagValues,
     enable_entities : {"undefined", "string"}, stream : FlagValues, apiKey : BOOLEAN]
    \cup [kind : {"null", "unparsable", "primitive"}, query : {Undefined},
          enable_research : {"undefined"}, enable_citations : {"undefined"},
          enable_entities : {"undefined"}, stream : {"undefined"}, apiKey : BOOLEAN]

NoGroundReq == [kind |-> "none", query |-> Undefined, enable_research |-> "undefined",
                enable_citations |-> "undefined", enable_entities |-> "undefined",
                stream |-> "undefined", apiKey |-> FALSE]

\* The validation of POST, lines 103-137: the status of the rejection, 0 when
\* the request passes. req.json() throws on a body that is not JSON.
GroundValidation(b) ==
    IF b.kind = "unparsable" THEN 500
    ELSE IF validateRequestBody(b) # 0 THEN validateRequestBody(b)
    ELSE IF validateStringField(b.query, 1, 1000) # 0
         THEN validateStringField(b.query, 1, 1000)
    ELSE IF validateBooleanField(b.enable_research) # 0 THEN 400
    ELSE IF validateBooleanField(b.enable_citations) # 0 THEN 400
    ELSE IF validateBooleanField(b.enable_entities) # 0 THEN 400
    ELSE IF validateBooleanField(b.stream) # 0 THEN 400
    ELSE validateEnvVar(b.apiKey)

\* What the upstream API did: the status of the response head (0 when none
\* arrived), the body read after an ok head, the words of the body that the
\* runtime quotes in the message of a JSON syntax error, whether the fetch was
\* rejected and whether the timeout fired.
Upstream(status, body, quoted, rejected, timeout) ==
    [status |-> status, body |-> body, quoted |-> quoted, rejected |-> rejected,
     timeout |-> timeout]

NoUpstream == Upstream(0, "none", "", FALSE, FALSE)

UpstreamStatuses == {200, 429, 401, 402, 500, 503}
MalformedBodies == {"notjson", "notobject", "nochoices", "noanswer", "nodata"}
QuotedWords == {"", "timeout", "rate limit", "authentication"}

\* The catch of POST, lines 327-349: the words searched for in error.message,
\* in this order.
CatchStatus(words) ==
    IF words = "timeout" THEN 500
    ELSE IF words = "rate limit" THEN 429
    ELSE IF words = "authentication" THEN 401
    ELSE 500

\* The response for a head that is not ok, lines 186-210.
NotOkResponse(status) ==
    IF status \in {429, 401, 402} THEN createErrorResponse(status)
    ELSE createErrorResponse(CatchStatus(""))

GroundInit ==
    /\ groundPc = "idle"
    /\ groundReq = NoGroundReq
    /\ groundUp = NoUpstream
    /\ groundTimer = "off"
    /\ groundRes = NoGroundRes

\* A request arrives at /api/tools/ai-grounding.
GroundArrives ==
    /\ groundPc = "idle"
    /\ \E b \in GroundBodies : groundReq' = b
    /\ groundPc' = "received"
    /\ UNCHANGED <<groundUp, groundTimer, groundRes>>
    /\ UNCHANGED nonGroundVars

\* POST, up to the upstream request: the validation, then fetchWithTimeout
\* with its 30 s timer.
GroundPost ==
    /\ groundPc = "received"
    /\ IF GroundValidation(groundReq) # 0
       THEN /\ groundRes' = createErrorResponse(GroundValidation(groundReq))
            /\ groundPc' = "done"
            /\ UNCHANGED groundTimer
       ELSE /\ groundTimer' = "armed"
            /\ groundPc' = "upstream"
            /\ UNCHANGED groundRes
    /\ UNCHANGED <<groundReq, groundUp>>
    /\ UNCHANGED nonGroundVars

\* The response head arrives, or the fetch is rejected: fetchWithTimeout clears
\* its timer. A head that is not ok is answered at once.
UpstreamAnswers ==
    /\ groundPc = "upstream"
    /\ groundTimer = "armed"
    /\ groundTimer' = "off"
    /\ \/ /\ groundUp' = Upstream(200, "none", "", FALSE, FALSE)
          /\ groundPc' = "body"
          /\ UNCHANGED groundRes
       \/ \E s \in UpstreamStatuses \ {200} :
             /\ groundUp' = Upstream(s, "none", "", FALSE, FALSE)
             /\ groundRes' = NotOkResponse(s)
             /\ groundPc' = "done"
       \/ /\ groundUp' = Upstream(0, "none", "", TRUE, FALSE)
          /\ groundRes' = createErrorResponse(CatchStatus(""))
          /\ groundPc' = "done"
    /\ UNCHANGED groundReq
    /\ UNCHANGED nonGroundVars

\* The body of an ok response has been read: an answer, or a body that is not
\* JSON (with stream, has no data line), is not an object, or has no choices or
\* no answer. Only the message of a JSON syntax error can quote the body.
UpstreamBody ==
    /\ groundPc = "body"
    /\ \/ /\ groundUp' = [groundUp EXCEPT !.body = "valid"]
          /\ groundRes' = createSuccessResponse
       \/ \E m \in MalformedBodies, q \in QuotedWords :
             /\ q # "" => m = "notjson"
             /\ m = "nodata" => groundReq.stream = "true"
             /\ groundUp' = [groundUp EXCEPT !.body = m, !.quoted = q]
             /\ groundRes' = createErrorResponse(CatchStatus(q))
    /\ groundPc' = "done"
    /\ UNCHANGED <<groundReq, groundTimer>>
    /\ UNCHANGED nonGroundVars

\* The timer fires before the head has arrived: the fetch is aborted with
\* 'Request timeout after 30000ms'.
GroundTimeout ==
    /\ groundPc = "upstream"
    /\ groundTimer = "armed"
    /\ groundTimer' = "off"
    /\ groundUp' = Upstream(0, "none", "", FALSE, TRUE)
    /\ groundRes' = createErrorResponse(CatchStatus("timeout"))
    /\ groundPc' = "done"
    /\ UNCHANGED groundReq
    /\ UNCHANGED nonGroundVars

GroundNext ==
    \/ GroundArrives
    \/ GroundPost
    \/ UpstreamAnswers
    \/ UpstreamBody
    \/ GroundTimeout

-----------------------------------------------------------------------------
(* Password gate and request validation of the chat route:                  *)
(* components/AuthWrapper.tsx, api/auth/route.ts, api/chat/route.ts 38-139  *)

\* ---- api/auth ----
Passwords == {"", "secret", "wrong"}
AuthEnvs == {"", "secret"}          \* process.env.AUTH_PASSWORD, "" when not set

\* POST of api/auth: the status of the response.
AuthStatus(password, authPassword) ==
    IF password = "" THEN 400
    ELSE IF authPassword = "" THEN 500
    ELSE IF password = authPassword THEN 200
    ELSE 401

\* ---- api/chat: the request body ----
\* A message of the list: a well-formed one, null, a string, one without role,
\* without content, with empty content, with a string content of more than
\* 50,000 characters, with an array of content parts, and with an array of
\* parts whose text is more than 50,000 characters long.
MessageKinds == {"ok", "null", "string", "norole", "nocontent", "emptycontent", "long",
                 "parts", "longparts"}

MessageLists == UNION {[1..n -> MessageKinds] : n \in 1..MaxMessages}

\* body.messages: absent, an object that is not an array, an empty array, or a list.
MessagesValues ==
    {[type |-> t, list |-> <<>>] : t \in {"undefined", "object", "empty"}}
    \cup {[type |-> "array", list |-> l] : l \in MessageLists}

\* body.context: absent, '', whitespace, a text, texts of 10,000 and 10,001
\* characters, and an array.
ContextValues == {"undefined", "empty", "blank", "text", "len10000", "len10001", "array"}

ContextLength(c) ==
    CASE c = "len10000" -> 10000 [] c = "len10001" -> 10001 [] c = "text" -> 4
      [] c = "blank" -> 3 [] OTHER -> 0

\* The ids of KIMI_MODELS, which the model selector of the page offers.
KIMI_MODELS == {"kimi-k2-turbo-preview", "kimi-k2-0905-preview", "kimi-k1.5", "kimi-latest",
                "kimi-thinking-preview", "moonshot-v1-auto", "moonshot-v1-32k-vision-preview",
                "moonshot-v1-128k", "moonshot-v1-32k", "moonshot-v1-8k"}

\* body.model: absent, an id of the selector, another string, or a number.
ModelValues == {"undefined", "gpt-4", "number"} \cup KIMI_MODELS

\* The messages of more than 50,000 characters in a body.
LongCount(ms) == Cardinality({i \in 1..Len(ms.list) : ms.list[i] \in {"long", "longparts"}})

\* The bodies /api/chat can be sent. over100k: JSON.stringify(body).length is
\* over 100,000, which two messages of more than 50,000 characters make it.
GateBodies ==
    {b \in [kind : {"object"}, messages : MessagesValues, model : ModelValues,
            context : ContextValues, over100k : BOOLEAN] :
        LongCount(b.messages) >= 2 => b.over100k}
    \cup [kind : {"null", "unparsable"}, messages : {[type |-> "undefined", list |-> <<>>]},
          model : {"undefined"}, context : {"undefined"}, over100k : {FALSE}]

NoGateBody == [kind |-> "none", messages |-> [type |-> "undefined", list |-> <<>>],
               model |-> "undefined", context |-> "undefined", over100k |-> FALSE]
NoGateReq == [body |-> NoGateBody, sender |-> "none", apiKey |-> FALSE, authenticated |-> FALSE]

allowedModels == {"kimi-k2-turbo-preview", "kimi-k2-0905-preview", "kimi-latest",
                  "kimi-thinking-preview", "moonshot-v1-auto",
                  "moonshot-v1-32k-vision-preview", "moonshot-v1-128k", "moonshot-v1-32k",
                  "moonshot-v1-8k", "kimi-k2-0711-preview", "moonshot-v1-8k-vision-preview",
                  "moonshot-v1-128k-vision-preview"}

\* allowedModels.includes(model) ? model : 'kimi-k2-turbo-preview'
selectedModel(model) == IF model \in allowedModels THEN model ELSE "kimi-k2-turbo-preview"

\* One turn of the loop over the messages, lines 92-109: the structure, then
\* the length of a content that is a string.
MessageStatus(kind) ==
    IF kind \in {"null", "string", "norole", "nocontent", "emptycontent"} THEN 400
    ELSE IF kind = "long" THEN 400
    ELSE 0

\* The first message of the list that is rejected decides.
RECURSIVE MessagesStatus(_)
MessagesStatus(list) ==
    IF list = <<>> THEN 0
    ELSE IF MessageStatus(Head(list)) # 0 THEN MessageStatus(Head(list))
    ELSE MessagesStatus(Tail(list))

\* POST of api/chat up to the provider request, lines 40-139 with the catch of
\* 552-561: the status of the rejection, 0 when the request passes. req.json()
\* throws on a body that is not JSON, the destructuring on null, and
\* context.trim() on a context that is not a string.
GateValidation(b, apiKey) ==
    IF ~apiKey THEN 500
    ELSE IF b.kind \in {"unparsable", "null"} THEN 500
    ELSE IF b.over100k THEN 413
    ELSE IF b.messages.type # "array" THEN 400
    ELSE IF MessagesStatus(b.messages.list) # 0 THEN MessagesStatus(b.messages.list)
    ELSE IF b.context \in {"text", "blank", "len10000", "len10001"}
            /\ ContextLength(b.context) > 10000 THEN 400
    ELSE IF b.context = "array" THEN 500
    ELSE 0

GateInit ==
    /\ wrapperPc = "loading"
    /\ sessionAuth = "none"
    /\ login = [password |-> "", authPassword |-> "", status |-> 0]
    /\ gatePc = "idle"
    /\ gateReq = NoGateReq
    /\ gateRes = 0
    /\ modelCalls = 0
    /\ sentModel = "none"

\* AuthWrapper's effect on mount: sessionStorage decides between the login
\* form and the children.
Mount ==
    /\ wrapperPc = "loading"
    /\ wrapperPc' = IF sessionAuth = "authenticated" THEN "app" ELSE "form"
    /\ UNCHANGED <<sessionAuth, login, gatePc, gateReq, gateRes, modelCalls, sentModel>>
    /\ UNCHANGED nonGateVars

\* handleLogin, up to the fetch of /api/auth.
handleLogin ==
    /\ wrapperPc = "form"
    /\ \E p \in Passwords, e \in AuthEnvs :
          login' = [password |-> p, authPassword |-> e, status |-> 0]
    /\ wrapperPc' = "login"
    /\ UNCHANGED <<sessionAuth, gatePc, gateReq, gateRes, modelCalls, sentModel>>
    /\ UNCHANGED nonGateVars

\* POST of api/auth, and handleLogin after the response: response.ok stores
\* the session mark and shows the children.
AuthPost ==
    /\ wrapperPc = "login"
    /\ LET status == AuthStatus(login.password, login.authPassword)
       IN /\ login' = [login EXCEPT !.status = status]
          /\ IF status = 200
             THEN sessionAuth' = "authenticated" /\ wrapperPc' = "app"
             ELSE UNCHANGED sessionAuth /\ wrapperPc' = "form"
    /\ UNCHANGED <<gatePc, gateReq, gateRes, modelCalls, sentModel>>
    /\ UNCHANGED nonGateVars

\* The page is loaded again in the same browser session.
Reload ==
    /\ wrapperPc \in {"form", "app"}
    /\ gatePc = "idle"
    /\ wrapperPc' = "loading"
    /\ UNCHANGED <<sessionAuth, login, gatePc, gateReq, gateRes, modelCalls, sentModel>>
    /\ UNCHANGED nonGateVars

\* A request arrives at /api/chat: from the page, which is shown only behind
\* the wrapper and sends the model chosen in its selector, or from any other
\* HTTP client. The request carries the body
\* only; the handler reads nothing of the sender.
GateArrives ==
    /\ gatePc = "idle"
    /\ \E sender \in {"page", "direct"}, b \in GateBodies, k \in BOOLEAN :
          /\ sender = "page" =>
                wrapperPc = "app" /\ b.kind = "object" /\ b.model \in KIMI_MODELS
          /\ gateReq' = [body |-> b, sender |-> sender, apiKey |-> k,
                         authenticated |-> sessionAuth = "authenticated"]
    /\ gatePc' = "received"
    /\ UNCHANGED <<wrapperPc, sessionAuth, login, gateRes, modelCalls, sentModel>>
    /\ UNCHANGED nonGateVars

\* POST of api/chat, up to the first completion request.
GatePost ==
    /\ gatePc = "received"
    /\ LET status == GateValidation(gateReq.body, gateReq.apiKey)
       IN IF status # 0
          THEN /\ gateRes' = status
               /\ gatePc' = "done"
               /\ UNCHANGED <<modelCalls, sentModel>>
          ELSE /\ modelCalls' = modelCalls + 1
               /\ sentModel' = selectedModel(gateReq.body.model)
               /\ gatePc' = "provider"
               /\ UNCHANGED gateRes
    /\ UNCHANGED <<wrapperPc, sessionAuth, login, gateReq>>
    /\ UNCHANGED nonGateVars

\* The rest of the handler: a streamed answer, or the error of the outer catch.
GateFinish ==
    /\ gatePc = "provider"
    /\ \E s \in {200, 500} : gateRes' = s
    /\ gatePc' = "done"
    /\ UNCHANGED <<wrapperPc, sessionAuth, login, gateReq, modelCalls, sentModel>>
    /\ UNCHANGED nonGateVars

GateNext ==
    \/ Mount
    \/ handleLogin
    \/ AuthPost
    \/ Reload
    \/ GateArrives
    \/ GatePost
    \/ GateFinish

-----------------------------------------------------------------------------
(* Citations of a grounded answer: POST of the ai-grounding route, from the   *)
(* answer of the upstream API to the sources list of the response.            *)

\* The characters of an answer: the brackets, two digits and a letter.
AnswerChars == {"[", "]", "0", "1", "t"}
Digits == {"0", "1"}
Answers(maxLen) == UNION {[1..n -> AnswerChars] : n \in 0..maxLen}

\* The end of the longest run of digits starting at i (i - 1 when s[i] is not
\* a digit): \d+ is greedy, and giving digits back cannot make "]" match.
RECURSIVE DigitRunEnd(_, _)
DigitRunEnd(s, i) ==
    IF i <= Len(s) /\ s[i] \in Digits THEN DigitRunEnd(s, i + 1) ELSE i - 1

\* answer.match(/\[(\d+)\]/g) followed by match.slice(1, -1): the digits of
\* each match, from left to right, the search resuming after each match.
RECURSIVE CitationMatches(_, _)
CitationMatches(s, i) ==
    IF i > Len(s) THEN <<>>
    ELSE IF s[i] = "["
         THEN LET e == DigitRunEnd(s, i + 1)
              IN IF e > i /\ e < Len(s) /\ s[e + 1] = "]"
                 THEN <<SubSeq(s, i + 1, e)>> \o CitationMatches(s, e + 2)
                 ELSE CitationMatches(s, i + 1)
         ELSE CitationMatches(s, i + 1)

\* The order of Array.prototype.sort without a comparator: by code units, a
\* proper prefix first.
RECURSIVE CodeUnitLess(_, _)
CodeUnitLess(a, b) ==
    IF b = <<>> THEN FALSE
    ELSE IF a = <<>> THEN TRUE
    ELSE IF Head(a) = Head(b) THEN CodeUnitLess(Tail(a), Tail(b))
    ELSE Head(a) = "0"

\* [...new Set(matches)].sort()
RECURSIVE SortedSet(_)
SortedSet(S) ==
    IF S = {} THEN <<>>
    ELSE LET least == CHOOSE x \in S : \A y \in S \ {x} : CodeUnitLess(x, y)
         IN <<least>> \o SortedSet(S \ {least})

\* The matches as they come, without the Set.
allCitations(matches) == matches

uniqueCitations(matches) == SortedSet({matches[k] : k \in DOMAIN matches})

\* One placeholder source per element of uniqueCitations: the citation's text
\* is in the title, the url and the snippet; the score falls with the index.
Sources(s, enabled) ==
    IF ~enabled THEN <<>>
    ELSE LET u == uniqueCitations(CitationMatches(s, 1))
         IN [k \in DOMAIN u |-> [citation |-> u[k], index |-> k - 1]]

CiteInit ==
    /\ citePc = "idle"
    /\ answer = <<>>
    /\ enable_citations = TRUE
    /\ sources = <<>>
    /\ has_citations = FALSE

\* The upstream API has answered a request that passed validation: the flag is
\* true, false, or absent and true by default.
AnswerArrives ==
    /\ citePc = "idle"
    /\ \E a \in Answers(MaxAnswer) : answer' = a
    /\ \E e \in {"undefined", "true", "false"} : enable_citations' = (e # "false")
    /\ citePc' = "answered"
    /\ UNCHANGED <<sources, has_citations>>
    /\ UNCHANGED nonCiteVars

\* The sources and the metadata are built; an empty answer is thrown out
\* before that and the response is an error.
BuildSources ==
    /\ citePc = "answered"
    /\ IF answer = <<>>
       THEN /\ citePc' = "error"
            /\ UNCHANGED <<sources, has_citations>>
       ELSE /\ sources' = Sources(answer, enable_citations)
            /\ has_citations' = (Len(sources') > 0)
            /\ citePc' = "done"
    /\ UNCHANGED <<answer, enable_citations>>
    /\ UNCHANGED nonCiteVars

CiteNext == AnswerArrives \/ BuildSources

-----------------------------------------------------------------------------
(* The context box of the page: the textarea, the file upload, the two clear  *)
(* buttons, localStorage, and the context sent with a chat request.           *)

\* A text is known by its lines, the string being the lines joined by "\n";
\* a line by its length and by what it starts with: "file" for '--- File:',
\* "end" for '--- End of', "blank" for an empty line, "text" for any other
\* line. Typed text and file contents are taken without whitespace at their
\* ends, the only place where trim() would tell.
Line(kind, len) == [kind |-> IF len = 0 THEN "blank" ELSE kind, len |-> len]
EmptyText == <<Line("blank", 0)>>

RECURSIVE SumLen(_)
SumLen(lines) == IF lines = <<>> THEN 0 ELSE Head(lines).len + SumLen(Tail(lines))

\* string.length
TextLength(lines) == SumLen(lines) + Len(lines) - 1

\* The characters a line needs to start with its marker.
MarkerPrefix(kind) == IF kind = "file" THEN 9 ELSE IF kind = "end" THEN 10 ELSE 0

\* value.slice(0, n)
RECURSIVE SliceLines(_, _)
SliceLines(lines, n) ==
    LET h == Head(lines)
    IN IF h.len >= n
       THEN <<Line(IF n < MarkerPrefix(h.kind) THEN "text" ELSE h.kind, n)>>
       ELSE IF Len(lines) = 1 THEN lines
       ELSE <<h>> \o SliceLines(Tail(lines), n - h.len - 1)

\* string.trim(): the blank lines at both ends go.
RECURSIVE DropBlank(_)
DropBlank(lines) ==
    IF lines = <<>> THEN <<>>
    ELSE IF Head(lines).kind = "blank" THEN DropBlank(Tail(lines)) ELSE lines
RECURSIVE DropBlankEnd(_)
DropBlankEnd(lines) ==
    IF lines = <<>> THEN <<>>
    ELSE IF lines[Len(lines)].kind = "blank"
    THEN DropBlankEnd(SubSeq(lines, 1, Len(lines) - 1)) ELSE lines
TrimLines(lines) ==
    LET t == DropBlankEnd(DropBlank(lines)) IN IF t = <<>> THEN EmptyText ELSE t

\* prev + more: the last line of prev and the first of more are one line.
Concat(prev, more) ==
    LET n == Len(prev)
        joint == Line(IF prev[n].kind = "blank" THEN more[1].kind ELSE prev[n].kind,
                      prev[n].len + more[1].len)
    IN SubSeq(prev, 1, n - 1) \o <<joint>> \o Tail(more)

\* Files that pass validateFile and the length test of processFile: a name with
\* its extension and the length of the content, at most 50,000 characters.
FileNames == {"a.txt", "b.md"}
NameLength(name) == IF name = "a.txt" THEN 5 ELSE 4
ContentLengths == {0, 100, 9000, 50000}

\* `\n\n--- File: ${filename} ---\n${content}\n--- End of ${filename} ---`
fileContext(name, contentLen) ==
    <<Line("blank", 0), Line("blank", 0), Line("file", 14 + NameLength(name)),
      Line("text", contentLen), Line("end", 15 + NameLength(name))>>

\* What a change of the textarea leaves in it before the slice: a text typed
\* or pasted in place of everything, or characters added at the end.
TypedLengths == {0, 5, 9995, 10000, 10005}
AddedLengths == {1, 10}

NoContextSent == [sent |-> FALSE, length |-> 0, status |-> 0]

ContextInit ==
    /\ context = EmptyText
    /\ uploadedFiles = <<>>
    /\ storage = EmptyText
    /\ contextSent = NoContextSent
    /\ uploads = 0
    /\ typings = 0

\* onChange of the textarea: setContext(e.target.value.slice(0, 10000)); the
\* effect on [context] saves it.
TypeContext ==
    /\ typings < MaxTypings
    /\ typings' = typings + 1
    /\ \E value \in {<<Line("text", t)>> : t \in TypedLengths}
                   \cup {Concat(context, <<Line("text", a)>>) : a \in AddedLengths} :
          context' = SliceLines(value, 10000)
    /\ storage' = context'
    /\ UNCHANGED <<uploadedFiles, contextSent, uploads>>
    /\ UNCHANGED nonContextVars

\* processFile and handleFileUpload: a file of the same name is replaced in
\* uploadedFiles; the labelled content is added to the context.
UploadFile ==
    /\ uploads < MaxUploads
    /\ uploads' = uploads + 1
    /\ \E name \in FileNames, c \in ContentLengths :
          /\ uploadedFiles' = Append(SelectSeq(uploadedFiles, LAMBDA f : f # name), name)
          /\ context' = Concat(context, fileContext(name, c))
    /\ storage' = context'
    /\ UNCHANGED <<contextSent, typings>>
    /\ UNCHANGED nonContextVars

\* Clear Files: the lines that start with a marker are filtered out, the rest
\* is joined and trimmed.
ClearFiles ==
    /\ Len(uploadedFiles) > 0
    /\ uploadedFiles' = <<>>
    /\ context' = TrimLines(LET kept == SelectSeq(context, LAMBDA l : l.kind \notin {"file", "end"})
                            IN IF kept = <<>> THEN EmptyText ELSE kept)
    /\ storage' = context'
    /\ UNCHANGED <<contextSent, uploads, typings>>
    /\ UNCHANGED nonContextVars

\* Clear All, shown when there is a context or a file.
ClearAll ==
    /\ context # EmptyText \/ Len(uploadedFiles) > 0
    /\ context' = EmptyText
    /\ uploadedFiles' = <<>>
    /\ storage' = context'
    /\ UNCHANGED <<contextSent, uploads, typings>>
    /\ UNCHANGED nonContextVars

\* A new mount of the page: the state starts over and the saved context, when
\* there is one, is restored.
RestoreContext ==
    /\ context' = storage
    /\ uploadedFiles' = <<>>
    /\ UNCHANGED <<storage, contextSent, uploads, typings>>
    /\ UNCHANGED nonContextVars

\* A chat request: the body carries context.trim() || undefined, and the chat
\* route answers 400 to a context string of more than 10,000 characters.
SendContext ==
    /\ LET length == TextLength(TrimLines(context))
       IN contextSent' = [sent |-> TRUE, length |-> length,
                          status |-> IF length > 10000 THEN 400 ELSE 0]
    /\ UNCHANGED <<context, uploadedFiles, storage, uploads, typings>>
    /\ UNCHANGED nonContextVars

ContextNext ==
    \/ TypeContext
    \/ UploadFile
    \/ ClearFiles
    \/ ClearAll
    \/ RestoreContext
    \/ SendContext

-----------------------------------------------------------------------------
(* The tool results of the page: executeTool from its guard to its finally,  *)
(* and the results shown under each assistant message.                        *)

\* `${toolCall.name}_${JSON.stringify(toolCall.arguments)}`
ToolKeys == {"WebSearch_cats", "Calculator_2+2"}

\* What the fetch of /api/execTool and response.json() end with: a body with
\* success true, a body with success false, or an exception.
Outcomes == {"success", "failure", "throws"}

\* The results rendered under the assistant message m: the entries of
\* toolResults whose msgId is m.id.
ShownUnder(m) == {e \in toolResults : e.msgId = m}

\* The body of a settled request: success as /api/execTool reports it.
ResponseOf(p) == [key |-> p.key, req |-> p.req, msgId |-> p.msgId,
                  success |-> (p.outcome = "success")]

\* Storing whatever body was read.
StoresAnyBody(p) == p.outcome # "throws"

\* `if (result.success)`: no body is read when the fetch or json() throws.
Stores(p) == p.outcome # "throws" /\ ResponseOf(p).success

ResultsInit ==
    /\ messageId = 1
    /\ calledKeys = {}
    /\ pending = {}
    /\ executingTools = {}
    /\ toolResults = {}
    /\ stored = {}
    /\ finished = {}
    /\ nextReq = 1

\* executeTool up to its fetch: the guard of shouldCallTool, the key added to
\* executingTools, the request sent with the id of the message being streamed.
DispatchTool ==
    /\ nextReq <= MaxRequests
    /\ \E k \in ToolKeys :
          /\ k \notin calledKeys
          /\ calledKeys' = calledKeys \cup {k}
          /\ executingTools' = executingTools \cup {k}
          /\ pending' = pending \cup {[req |-> nextReq, key |-> k, msgId |-> messageId,
                                        outcome |-> "none"]}
    /\ nextReq' = nextReq + 1
    /\ UNCHANGED <<messageId, toolResults, stored, finished>>
    /\ UNCHANGED nonResultsVars

\* The request settles; /api/execTool echoes the msgId of the request.
RequestSettles ==
    /\ \E p \in pending, o \in Outcomes :
          /\ p.outcome = "none"
          /\ pending' = (pending \ {p}) \cup {[p EXCEPT !.outcome = o]}
    /\ UNCHANGED <<messageId, calledKeys, executingTools, toolResults, stored, finished, nextReq>>
    /\ UNCHANGED nonResultsVars

\* The rest of executeTool: a response with success is set under its key in
\* toolResults, and finally the key is deleted from executingTools.
ExecuteToolEnds ==
    /\ \E p \in pending :
          /\ p.outcome # "none"
          /\ pending' = pending \ {p}
          /\ finished' = finished \cup {[req |-> p.req, key |-> p.key, outcome |-> p.outcome]}
          /\ executingTools' = executingTools \ {p.key}
          /\ IF Stores(p)
             THEN /\ toolResults' = {e \in toolResults : e.key # p.key} \cup {ResponseOf(p)}
                  /\ stored' = stored \cup {ResponseOf(p)}
             ELSE UNCHANGED <<toolResults, stored>>
    /\ UNCHANGED <<messageId, calledKeys, nextReq>>
    /\ UNCHANGED nonResultsVars

\* The turn ends and the next assistant message starts: onFinish clears the
\* already-called set, onError leaves it.
NextMessage ==
    /\ messageId < MaxResultTurns
    /\ messageId' = messageId + 1
    /\ \/ calledKeys' = {}
       \/ UNCHANGED calledKeys
    /\ UNCHANGED <<pending, executingTools, toolResults, stored, finished, nextReq>>
    /\ UNCHANGED nonResultsVars

ResultsNext ==
    \/ DispatchTool
    \/ RequestSettles
    \/ ExecuteToolEnds
    \/ NextMessage

\* executeTool goes on once its awaited promise has settled.
ResultsFairness == WF_vars(ExecuteToolEnds)

-----------------------------------------------------------------------------
(* Specifications: one per component, over the same initial state *)

Init ==
    /\ ClientInit
    /\ ChatInit
    /\ ExecInit
    /\ SearchInit
    /\ CalcInit
    /\ DispatchInit
    /\ GroundInit
    /\ GateInit
    /\ CiteInit
    /\ ContextInit
    /\ ResultsInit

Next == ClientNext

\* The client: submissions, streamed deltas and the intent watcher.
Spec == Init /\ [][Next]_vars

\* The chat route's handler.
SpecChat == Init /\ [][ChatNext]_vars

\* The tool execution endpoint, with the tool routes seen from outside.
SpecExec == Init /\ [][ExecNext]_vars

\* The web search route, with its provider seen from outside.
SpecSearch == Init /\ [][SearchNext]_vars

\* The calculator route.
SpecCalc == Init /\ [][CalcNext]_vars

\* One tool dispatch end to end, with what the runtime guarantees to run.
SpecDispatch == Init /\ [][DispatchNext]_vars /\ DispatchFairness

\* The grounded-answer route, with the upstream API seen from outside.
SpecGround == Init /\ [][GroundNext]_vars

\* The password gate and the chat route's validation, with requests from the
\* page and from any other HTTP client.
SpecGate == Init /\ [][GateNext]_vars

\* The code runner route.
SpecCode == Init /\ [][CodeNext]_vars

\* The citations of a grounded answer, over the answers of the upstream API.
SpecCite == Init /\ [][CiteNext]_vars

\* The context box of the page, and the context of the chat requests.
SpecContext == Init /\ [][ContextNext]_vars

\* The tool results of the page.
SpecResults == Init /\ [][ResultsNext]_vars

\* The same, with executeTool running on after each settled request.
SpecResultsLive == Init /\ [][ResultsNext]_vars /\ ResultsFairness

-----------------------------------------------------------------------------
(* Claims about the client *)

\* The requests of the current turn that name tool n.
RECURSIVE BagCount(_, _)
BagCount(b, S) ==
    IF S = {} THEN 0
    ELSE LET e == CHOOSE x \in S : TRUE
         IN CopiesIn(e, b) + BagCount(b, S \ {e})

SentFor(n) == BagCount(sent, {e \in BagToSet(sent) : e.name = n})

\* C1: within one assistant turn no tool-call identity (name + serialized
\* arguments) is requested from /api/execTool more than once, whatever the order
\* of the chunk scan, the full-buffer scan and a run of the effect around onFinish.
C1_AtMostOncePerTurn ==
    \A e \in BagToSet(sent) : CopiesIn(e, sent) <= 1

\* The text holds one search phrase: one search verb, later one preposition,
\* followed by a query.
OneSearchPhrase(t) ==
    /\ Cardinality({i \in 1..Len(t) : t[i] \in SearchVerbs}) = 1
    /\ Cardinality({i \in 1..Len(t) : t[i] \in SearchPreps}) = 1
    /\ Cardinality({i \in 1..Len(t) : t[i] \in CalcVerbs}) = 0
    /\ WebSearchTrigger(t)
    /\ WebSearchExtractor(t) # NoArgs

\* C2: in a turn whose assistant text holds one search phrase the watcher never
\* dispatches a second WebSearch call, and once the stream has finished and the
\* effect has run it has dispatched exactly one.
C2_ExactlyOneSearch ==
    (lastRole = "assistant" /\ OneSearchPhrase(content))
        => /\ SentFor("WebSearch") <= 1
           /\ (chatStatus = "idle" /\ ~effectPending) => SentFor("WebSearch") = 1

\* C20: the already-called set is empty whenever the effect scans an assistant
\* message for the first time, whatever the turns before it ended with.
C20_ClearedAtTurnStart ==
    [][scannedId' # scannedId => alreadyCalledTools = {}]_vars

\* C20, its case: the message of a second turn has been scanned.
C20_Witness ==
    /\ turn = 2
    /\ scannedId = 2

\* How much of the last message earlier scans have covered.
CoveredBefore == IF scannedId = lastId THEN scannedLen ELSE 0

\* C21: each scan of the effect takes the chunk that starts right after what
\* earlier scans of the same message covered, and once a turn is over and the
\* effect has run, the whole assistant message has been covered.
C21_ScannedExactlyOnce ==
    /\ [][currentResponse' > currentResponse => currentResponse = CoveredBefore]_vars
    /\ []((lastRole = "assistant" /\ chatStatus = "idle" /\ ~effectPending)
            => CoveredBefore = Len(content))

\* C21, its case: a message was scanned in two chunks, and its turn is over.
C21_Witness ==
    /\ lastRole = "assistant"
    /\ chatStatus = "idle"
    /\ ~effectPending
    /\ scannedId = lastId
    /\ scannedLen = Len(content)
    /\ Len(content) > 1
    /\ turn = 2

-----------------------------------------------------------------------------
(* Claims about the chat route *)

\* The extraction has run on the message the model returned.
Extracted == chatPc \in {"tools", "respond", "done"}

\* C3: for a complete, well-formed {"tool_calls":[...]} object in the content
\* (and no native tool calls) the route extracts exactly the calls the object
\* encodes, whatever the query holds, and the text left after the cleanup is the
\* surrounding text only, for the route's cleanup and for the page's.
C3_MarkerExtractedExactly ==
    (given.shape = "marker" /\ Extracted)
        => /\ toolCallsToExecute = CallsOf(given.payloads)
           /\ message.content = Trim(given.prefix \o given.suffix)
           /\ cleanMessageContent(given.content) = Trim(given.prefix \o given.suffix)

\* C3, its case: a marker whose query holds "]" or "}" has been extracted.
C3_Witness ==
    /\ given.shape = "marker"
    /\ Extracted
    /\ \E i \in 1..Len(given.payloads) :
          \E k \in 1..Len(given.payloads[i]) : given.payloads[i][k] \in {"]", "}"}

\* C4: a message with no native tool calls and no marker in its content yields
\* no call, no tool execution, no further completion request, and a response
\* whose text is the content unchanged.
C4_PlainPassesThrough ==
    (given.shape = "plain")
        => /\ chatPc \in {"extract", "respond", "done"}
           /\ toolCallsToExecute = <<>>
           /\ toolMessages = <<>>
           /\ requests = NoRequests
           /\ message.content = given.content
           /\ chatPc = "done" => chatOut = [kind |-> "direct", status |-> 200,
                                            text |-> given.content,
                                            toolMessages |-> <<>>]

\* C4, its case: a plain message with surrounding whitespace has been answered.
C4_Witness ==
    /\ given.shape = "plain"
    /\ chatPc = "done"
    /\ Len(given.content) > 1
    /\ given.content[1] = " "
    /\ chatOut.text = given.content

\* The follow-up completion request of the turn has failed.
FollowUpFailed == requests.followUp > 0 /\ chatPc \in {"fallback", "done"} /\ chatOut.kind # "final"

\* C16: when the follow-up completion request fails after the tool loop, the
\* turn is answered with status 200 and the response carries the tool results
\* obtained.
C16_ToolResultsReturned ==
    (chatPc = "done" /\ FollowUpFailed)
        => /\ chatOut.status = 200
           /\ chatOut.toolMessages = toolMessages

\* C16, its case: tools were executed, the follow-up request failed and the
\* turn has been answered.
C16_Witness ==
    /\ chatPc = "done"
    /\ FollowUpFailed
    /\ requests.tool > 0
    /\ Len(toolMessages) > 0
    /\ chatOut.kind = "fallback"

\* The calls the tool loop has gone through, and those of them it has run.
CallsDone == SubSeq(toolCallsToExecute, 1, toolIdx - 1)
HasName(c) == c.name # ""
CallsRun == SelectSeq(CallsDone, HasName)

\* The call fails before any request: unknown tool name, unparsable arguments.
FailsAtOnce(c) ==
    c.name \notin {"WebSearch", "CodeRunner", "Calculator"} \/ c.arguments = <<"notjson">>
Requested(c) == HasName(c) /\ ~FailsAtOnce(c)

ExtractionOver == chatPc \in {"tools", "respond", "partial"} /\ requests.partial = 0

\* C22: the calls of a turn are the native tool_calls when there are any, and
\* the content is then left as it is; otherwise they are the calls of the first
\* of the three patterns, in order, that yields any.
C22_PriorityOrder ==
    ExtractionOver =>
        IF Len(given.tool_calls) > 0
        THEN toolCallsToExecute = given.tool_calls /\ message.content = given.content
        ELSE IF given.content = <<>> THEN toolCallsToExecute = <<>>
        ELSE IF Extract1(given.content) # <<>>
        THEN toolCallsToExecute = Extract1(given.content)
        ELSE IF Extract2(given.content) # <<>>
        THEN toolCallsToExecute = Extract2(given.content)
        ELSE toolCallsToExecute = Extract3(given.content)

\* C22, its case: the first pattern yielded nothing and the calls are those of
\* the second.
C22_Witness ==
    /\ ExtractionOver
    /\ given.tool_calls = <<>>
    /\ Extract1(given.content) = <<>>
    /\ Extract2(given.content) # <<>>
    /\ toolCallsToExecute = Extract2(given.content)

\* C23: when the content ends in a truncated {"tool_calls":[ fragment and the
\* response is the content itself, the response is the text before the
\* fragment, whatever the Partial Mode completion came back with.
C23_FragmentNotDisplayed ==
    (given.shape = "truncated" /\ chatPc = "done" /\ chatOut.kind = "direct")
        => chatOut.text = Trim(given.prefix)

\* C23, its case: a content with text before a truncated fragment has been
\* answered after a Partial Mode completion request.
C23_Witness ==
    /\ given.shape = "truncated"
    /\ given.prefix # <<>>
    /\ requests.partial = 1
    /\ chatPc = "done"
    /\ chatOut.kind = "direct"

\* The route has left the normal path: the catch of the tool calling flow ran.
OnErrorPath == requests.fallback > 0 \/ chatPc = "fallback"

\* C24: whatever the content of the first completion, the catch of the tool
\* calling flow is not entered on account of the extraction or of what it
\* extracted: it is entered only after a failed follow-up request.
C24_ExtractionNeverRaises ==
    (given.shape # "none" /\ given.tool_calls = <<>> /\ OnErrorPath)
        => requests.followUp > 0

\* C24, its case: a marker whose JSON does not parse has been answered on the
\* normal path, without tools.
C24_Witness ==
    /\ given.shape \in {"marker", "entries"}
    /\ Pattern1(given.content).found
    /\ Extract1(given.content) = <<>>
    /\ chatPc = "done"
    /\ chatOut.kind = "direct"

\* The tool part of the follow-up list answers the calls cs one by one.
AnswersInOrder(cs) ==
    LET n == Len(contextualMessages) + 1
    IN /\ Len(updatedMessages) = n + Len(cs)
       /\ \A i \in 1..Len(cs) :
             /\ updatedMessages[n + i].role = "tool"
             /\ updatedMessages[n + i].tool_call_id = cs[i].id

\* The follow-up list starts with the context messages as they were, followed
\* by the assistant's message.
ContextThenAssistant ==
    LET n == Len(contextualMessages) + 1
    IN /\ Len(updatedMessages) >= n
       /\ SubSeq(updatedMessages, 1, n - 1) = contextualMessages
       /\ updatedMessages[n].role = "assistant"
       /\ updatedMessages[n].content = message.content

C26_FollowUpAfterAllTools ==
    /\ chatPc = "awaiting" => requests.followUp = 0
    /\ requests.followUp > 0
          => /\ toolIdx = Len(toolCallsToExecute) + 1
             /\ requests.tool = Len(SelectSeq(toolCallsToExecute, Requested))
             /\ Len(toolMessages) = Len(SelectSeq(toolCallsToExecute, HasName))

\* C26, its case: two tool routes were requested one after the other, and the
\* follow-up request was made.
C26_Witness ==
    /\ requests.tool = 2
    /\ requests.followUp = 1

-----------------------------------------------------------------------------
(* Claims about the tool execution endpoint *)

\* The request names an allow-listed tool and carries arguments and an id.
Dispatchable(r) ==
    /\ r.kind = "object"
    /\ r.name \in {Str("WebSearch"), Str("Calculator"), Str("CodeRunner")}
    /\ Truthy(r.arguments)
    /\ Truthy(r.id)

\* A case of the switch runs, and a tool route is fetched, only for an
\* allow-listed name and its own route.
SwitchOnlyForAllowed ==
    switchCase # "none"
        => /\ switchCase \in {"WebSearch", "Calculator", "CodeRunner"}
           /\ execReq.name = Str(switchCase)
           /\ toolFetch.route = RouteOf(switchCase)

\* C5 as stated: only allow-listed tools are dispatched. A request that names
\* another tool, or lacks a name, arguments or an id, runs no case of the switch,
\* fetches no tool route and is answered 400 with success:false.
C5_Rejected400 ==
    /\ (execReq.kind # "none" /\ ~Dispatchable(execReq))
          => /\ switchCase = "none"
             /\ toolFetch = NoFetch
             /\ execPc = "done" => (execRes.status = 400 /\ ~execRes.success)
    /\ SwitchOnlyForAllowed

\* C5, amended: such a request runs no case of the switch, fetches no tool route
\* and is answered with success:false, with status 400 when the body is a JSON
\* value with or without the fields, and 500 when the body is null or does not
\* parse; a case of the switch runs only for an allow-listed name.
C5_AllowListOnly ==
    /\ (execReq.kind # "none" /\ ~Dispatchable(execReq))
          => /\ switchCase = "none"
             /\ toolFetch = NoFetch
             /\ execPc = "done"
                  => /\ ~execRes.success
                     /\ execRes.status = IF execReq.kind = "invalid" THEN 500 ELSE 400
    /\ SwitchOnlyForAllowed

\* C5, its case: a request for the scrape tool, which the switch knows and the
\* allow-list does not, has been answered.
C5_Witness ==
    /\ execPc = "done"
    /\ execReq.name = Str("WebScrape")
    /\ Truthy(execReq.arguments)
    /\ Truthy(execReq.id)
    /\ execRes.status = 400

-----------------------------------------------------------------------------
(* Claims about the web search route *)

\* The request carries no usable query: no body to read one from, or a query
\* that is missing, not a string, empty or only whitespace.
NoUsableQuery(b) ==
    /\ b.kind # "none"
    /\ \/ b.kind # "object"
       \/ b.query.type # "string"
       \/ TrimLength(b.query.v) = 0

SearchAnswered == searchPc \in {"scrape", "done"} /\ providerCalls > 0

\* The provider failed: the fetch was rejected, timed out or was answered with
\* a status that is not ok or a body that cannot be used (the fallback was
\* taken), or its answer held no usable result.
ProviderFailed ==
    \/ searchRes.source = "fallback"
    \/ searchRes.source = "provider" /\ searchRes.count = 0

\* C14: a validated search whose provider failed is answered with success and
\* a result list that is not empty.
C14_DegradedResults ==
    (SearchAnswered /\ ProviderFailed)
        => /\ searchRes.status = 200
           /\ searchRes.success
           /\ searchRes.count > 0

\* C14, its case: the provider request timed out and the fallback was answered.
C14_Witness ==
    /\ SearchAnswered
    /\ timedOut
    /\ searchRes.source = "fallback"
    /\ searchRes.count > 0

\* The route of websearch/route.ts has answered an accepted request.
DdgAnswered == deploy.variant = "ddg" /\ searchPc = "done" /\ searchRes.status = 200

\* The results assembled from the provider's body are at most max_results.
AssembledWithinMax ==
    DdgAnswered /\ searchRes.source = "provider"
        => searchRes.count <= MaxResultsOf(searchReq).n

\* C28: the results returned for an accepted request are at most the requested
\* max_results, from the provider's body and from the fallback alike.
C28_AtMostMaxResults ==
    DdgAnswered => searchRes.count <= MaxResultsOf(searchReq).n

\* C28, its case: an accepted request for one result is answered with the
\* fallback results.
C28_Witness ==
    /\ DdgAnswered
    /\ searchRes.source = "fallback"
    /\ MaxResultsOf(searchReq).n = 1

-----------------------------------------------------------------------------
(* Claims about the calculator route *)

EvaluateDone ==
    /\ calcPc = "done"
    /\ calcReq.kind = "object"
    /\ calcReq.operation = "evaluate"
    /\ calcReq.type = "string"
    /\ calcReq.expression # <<>>

\* C7: 'evaluate' answers every expression with a structured result; '2 + 2' and
\* 'sqrt(16)' give success:true with 4; a success carries a finite number; and
\* an input that names something other than numbers, operators and the listed
\* functions is answered success:false without being handed to Function.
C7_EvaluateSafe ==
    EvaluateDone =>
        /\ calcRes.status = 200
        /\ calcRes.success => (calcRes.hasResult /\ IsFinite(calcRes.result))
        /\ RemoveWhitespace(calcReq.expression) \in {<<"2", "+", "2">>, <<"sqrt", "(", "16", ")">>}
              => (calcRes.success /\ calcRes.result = Whole(4))
        /\ ForeignNames(cleanExpression(calcReq.expression)) # {}
              => (~calcRes.success /\ functionBody = <<>>)

\* C7, its case: 'sqrt(16)' has been evaluated to 4.
C7_Witness ==
    /\ EvaluateDone
    /\ calcReq.expression = <<"sqrt", "(", "16", ")">>
    /\ functionBody = <<"Math.sqrt", "(", "16", ")">>
    /\ calcRes.success
    /\ calcRes.result = Whole(4)

SolveDone ==
    /\ calcPc = "done"
    /\ calcReq.kind = "object"
    /\ calcReq.operation = "solve"
    /\ calcReq.type = "string"

\* C8: 'solve' on a x + b = c with integers a, b, c and a # 0, the coefficient
\* written out, omitted or a bare minus sign, gives success:true with
\* (c - b) / a (to six decimals); and no success of 'solve' carries a result
\* that is not a number.
C8_SolveLinear ==
    SolveDone =>
        /\ (calcReq.form.linear /\ calcReq.form.a # 0)
              => /\ calcRes.success
                 /\ calcRes.result =
                      ToFixed6(Rat(calcReq.form.c - calcReq.form.b, calcReq.form.a))
        /\ calcRes.success => calcRes.result.k = "rat"

\* C8, its case: '2x + 3 = 7' has been solved to 2.
C8_Witness ==
    /\ SolveDone
    /\ calcReq.expression = <<"2", "x", " ", "+", " ", "3", " ", "=", " ", "7", " ">>
    /\ calcRes.success
    /\ calcRes.result = Rat(2, 1)

-----------------------------------------------------------------------------
(* Claims about the dispatch of a tool *)

DispatchDone == dispatchPc = "done"

\* The provider request of the search route is outstanding.
ProviderOutstanding == searchPc \in {"provider", "body"}

-----------------------------------------------------------------------------
(* Claims about the grounded-answer route *)

\* The upstream failures the claim names, and the status each is to yield.
UpstreamFailed ==
    \/ groundUp.status \in {429, 401, 402}
    \/ groundUp.timeout
    \/ groundUp.body \in MalformedBodies

ExpectedStatus == IF groundUp.status \in {429, 401, 402} THEN groundUp.status ELSE 500

\* C10: an upstream 429, 401 or 402 yields an error response of the same
\* status, an upstream timeout or a malformed upstream body yields a 500, and
\* in each case the body carries success:false and an error message.
C10_UpstreamErrors ==
    (groundPc = "done" /\ UpstreamFailed)
        => /\ groundRes.status = ExpectedStatus
           /\ groundRes.success = "false"
           /\ groundRes.error

\* C10, its case: the upstream API has answered 429 and the handler has answered.
C10_Witness ==
    /\ groundPc = "done"
    /\ groundUp.status = 429
    /\ groundRes.status = 429
    /\ groundRes.error

\* The upstream API has been called for the request.
UpstreamCalled == groundPc \in {"upstream", "body"} \/ groundUp # NoUpstream

GroundFlags(b) == {b.enable_research, b.enable_citations, b.enable_entities, b.stream}

\* A flag that is present and not a boolean.
BadFlag(b) == GroundFlags(b) \cap {"null", "string"} # {}

\* The query is missing, not a string, empty after trimming, or longer than
\* 1000 characters.
BadQuery(b) ==
    \/ b.kind # "object"
    \/ b.query.type # "string"
    \/ TrimLength(b.query.v) = 0
    \/ StringLength(b.query.v) > 1000

\* The same, with the length taken after trimming and of a body that is JSON.
BadQueryTrimmed(b) ==
    \/ b.kind \in {"null", "primitive"}
    \/ b.kind = "object" /\ \/ b.query.type # "string"
                            \/ TrimLength(b.query.v) = 0
                            \/ TrimLength(b.query.v) > 1000

-----------------------------------------------------------------------------
(* Claims about the password gate and the chat route's validation *)

\* C12: a completion request reaches the model provider only for a chat
\* request made after a successful password check, and a chat request made
\* without one is rejected.
C12_AuthRequired ==
    /\ modelCalls > 0 => gateReq.authenticated
    /\ (gatePc = "done" /\ ~gateReq.authenticated) => gateRes \in {401, 403}

\* C12, its case: a request sent by another HTTP client, with no password check
\* before it, has been handled.
C12_Witness ==
    /\ gatePc = "done"
    /\ gateReq.sender = "direct"
    /\ ~gateReq.authenticated
    /\ sessionAuth = "none"

\* The message list is missing, not an array or empty, a message lacks role or
\* content, a message content is over 50,000 characters, or the context is
\* over 10,000 characters.
GateInvalid(b) ==
    \/ b.kind # "object"
    \/ b.messages.type # "array"
    \/ \E i \in 1..Len(b.messages.list) :
          b.messages.list[i] \in {"null", "string", "norole", "nocontent", "emptycontent",
                                  "long", "longparts"}
    \/ ContextLength(b.context) > 10000

\* C13: a body over 100,000 serialized characters is answered 413, another
\* invalid request 400, neither with a provider call, and the model id sent
\* upstream is one of the allow-list.
C13_ValidatedBeforeProvider ==
    /\ (gatePc # "idle" /\ gateReq.body.over100k)
          => modelCalls = 0 /\ (gatePc = "done" => gateRes = 413)
    /\ (gatePc # "idle" /\ ~gateReq.body.over100k /\ GateInvalid(gateReq.body))
          => modelCalls = 0 /\ (gatePc = "done" => gateRes = 400)
    /\ modelCalls > 0 => sentModel \in allowedModels

\* C13, its case: a request with a model id outside the allow-list and a
\* message of array content has reached the provider.
C13_Witness ==
    /\ modelCalls = 1
    /\ gateReq.body.model = "gpt-4"
    /\ \E i \in 1..Len(gateReq.body.messages.list) : gateReq.body.messages.list[i] = "parts"

\* The route has sent a completion request for a request of the page.
PageRequestSent == gateReq.sender = "page" /\ gatePc = "provider"

\* C30: for every model of the selector, the completion request for a request
\* of the page carries the model the page sent, not the default in its place.
C30_SelectedModelSent ==
    PageRequestSent => sentModel = gateReq.body.model

\* C30, its case: the page has sent a model of its selector other than the
\* default, and the route has sent its completion request.
C30_Witness ==
    /\ PageRequestSent
    /\ gateReq.body.model \in KIMI_MODELS \ {"kimi-k2-turbo-preview"}

-----------------------------------------------------------------------------
(* Claims about the code runner *)

\* The request names one of the two languages and carries code of accepted
\* length.
CodeAccepted ==
    /\ codeReq.kind = "object"
    /\ codeReq.language \in {"python", "javascript"}
    /\ codeReq.code \notin {"undefined", "", "long"}

\* The submitted JavaScript raises an exception: while it is compiled or run,
\* when its result is serialized, or in the promise it returns.
CodeRaises ==
    /\ codeReq.language = "javascript"
    /\ codeReq.code \in {"throws", "syntax", "print", "tojsonthrows", "rejects"}

\* C15: a language other than 'python' and 'javascript' is answered 400 and
\* nothing is run; an exception raised by accepted code is answered with
\* status 200, success:false and the error message, and nothing of it is left
\* unhandled.
C15_ExceptionsStructured ==
    codePc = "done" =>
        /\ (codeReq.kind = "object" /\ codeReq.language \notin {"python", "javascript"})
              => codeRes.status = 400 /\ ~codeRes.ran
        /\ (CodeAccepted /\ CodeRaises)
              => /\ codeRes.status = 200
                 /\ ~codeRes.success
                 /\ codeRes.error
                 /\ ~codeRes.unhandled

\* C15, its case: accepted JavaScript that throws has been answered.
C15_Witness ==
    /\ codePc = "done"
    /\ CodeAccepted
    /\ codeReq.language = "javascript"
    /\ codeReq.code = "throws"
    /\ codeRes.status = 200
    /\ ~codeRes.success

-----------------------------------------------------------------------------
(* Claims about the citations of a grounded answer *)

\* The number a run of digits writes.
RECURSIVE NumberOf(_)
NumberOf(d) ==
    IF d = <<>> THEN 0
    ELSE 10 * NumberOf(SubSeq(d, 1, Len(d) - 1)) + (IF d[Len(d)] = "1" THEN 1 ELSE 0)

\* The positions where a marker [n] starts in the answer.
MarkerStarts ==
    {i \in 1..Len(answer) :
        /\ answer[i] = "["
        /\ DigitRunEnd(answer, i + 1) > i
        /\ DigitRunEnd(answer, i + 1) < Len(answer)
        /\ answer[DigitRunEnd(answer, i + 1) + 1] = "]"}
MarkerDigits(i) == SubSeq(answer, i + 1, DigitRunEnd(answer, i + 1))

\* The citation numbers occurring in the answer, and the marker texts.
CitationNumbers == {NumberOf(MarkerDigits(i)) : i \in MarkerStarts}
CitationTexts == {MarkerDigits(i) : i \in MarkerStarts}

\* C18: with citations enabled the sources list has exactly one entry for each
\* distinct citation number of the answer and no other entry, and
\* has_citations tells whether the list is non-empty; with citations disabled
\* the list is empty and has_citations is false.
C18_OneSourcePerNumber ==
    citePc = "done" =>
        IF enable_citations
        THEN /\ Len(sources) = Cardinality(CitationNumbers)
             /\ \A n \in CitationNumbers :
                   Cardinality({k \in DOMAIN sources : NumberOf(sources[k].citation) = n}) = 1
             /\ has_citations = (Len(sources) > 0)
        ELSE sources = <<>> /\ ~has_citations

\* C18, amended: with citations enabled the sources list has exactly one entry
\* for each distinct text between the brackets of a marker ([1] and [01] are
\* two), and has_citations tells whether the list is non-empty; with citations
\* disabled the list is empty and has_citations is false.
C18_OneSourcePerText ==
    citePc = "done" =>
        IF enable_citations
        THEN /\ Len(sources) = Cardinality(CitationTexts)
             /\ \A t \in CitationTexts :
                   Cardinality({k \in DOMAIN sources : sources[k].citation = t}) = 1
             /\ has_citations = (Len(sources) > 0)
        ELSE sources = <<>> /\ ~has_citations

\* C18, its case: an answer with the same marker twice has got one source.
C18_Witness ==
    /\ citePc = "done"
    /\ enable_citations
    /\ Cardinality(MarkerStarts) = 2
    /\ Len(sources) = 1
    /\ has_citations

-----------------------------------------------------------------------------
(* Claims about the context box *)

\* C19: the stored context is at most 10,000 characters after any sequence
\* of context operations, in the page and in localStorage, and no context sent
\* with a chat request is rejected for its length.
C19_ContextWithinLimit ==
    /\ TextLength(context) <= 10000
    /\ TextLength(storage) <= 10000
    /\ contextSent.status # 400

\* C19, its case: a file was uploaded into a context that was typed, and the
\* context was sent with a chat request.
C19_Witness ==
    /\ typings > 0
    /\ Len(uploadedFiles) > 0
    /\ contextSent.sent
    /\ contextSent.length > 0

-----------------------------------------------------------------------------
(* Claims about the tool results of the page *)

\* C27: every result that was stored is shown under the message whose id went
\* with its request, and under no other, from then on.
C27_ResultStaysAttached ==
    \A r \in stored :
        /\ r \in ShownUnder(r.msgId)
        /\ \A m \in 1..MaxResultTurns : m # r.msgId => r \notin ShownUnder(m)

\* C27, its case: a result was stored for a message, and a later message has
\* dispatched a call with the same name and arguments.
C27_Witness ==
    \E r \in stored : \E p \in pending : p.key = r.key /\ p.msgId > r.msgId

\* The request numbered r has settled and executeTool has not gone on yet.
Settled(r) == \E p \in pending : p.req = r /\ p.outcome # "none"

\* executeTool has ended for the request numbered r and its key is not in the
\* executing-tools set.
KeyRemoved(r) == \E f \in finished : f.req = r /\ f.key \notin executingTools

\* C29: once a request has settled, with success, with success false or with
\* an exception, its key is eventually removed from the executing-tools set;
\* and the tool-results map holds only responses that report success.
C29_KeyRemovedAndOnlySuccessStored ==
    /\ \A r \in 1..MaxRequests : Settled(r) ~> KeyRemoved(r)
    /\ [](\A e \in toolResults : e.success)

\* C29, its case: a request that threw, one that answered success false and
\* one that succeeded have all ended, no key is executing, and only the
\* successful one is in the map.
C29_Witness ==
    /\ \A o \in Outcomes : \E f \in finished : f.outcome = o
    /\ executingTools = {}
    /\ \A f \in finished :
          (\E e \in toolResults : e.req = f.req) <=> f.outcome = "success"

====
